---- MODULE Spec2Model ----
(***************************************************************************)
(* Livy session lifecycle manager and statement execution engine of the    *)
(* dbt-fabricspark adapter (src/dbt/adapters/fabricspark/livysession.py).  *)
(*                                                                         *)
(* Caller threads run connect, disconnect and execute against the          *)
(* process-wide LivySessionManager.  Every HTTP exchange is a step whose   *)
(* response is chosen by the environment from the responses the remote     *)
(* service can give; time is the time elapsed since the current polling    *)
(* loop took its deadline.                                                 *)
(***************************************************************************)
EXTENDS Integers, Sequences, FiniteSets, TLC

\* ------------------------------------------------------------------ bounds
NumThreads == 2
\* top-level calls (connect, disconnect, execute) each thread makes
MaxOps == 2
\* credentials.session_start_timeout and credentials.poll_wait, in ticks
SessionStartTimeout == 2
ShortStartTimeout == 1
PollWait == 1
\* top-level calls of the polling thread
PollOps == 3
\* credentials.statement_timeout and credentials.poll_statement_wait, in ticks
StatementTimeout == 1
PollStatementWait == 1
\* longest time one HTTP exchange takes, in ticks
HttpDelayMax == 1
\* top-level calls of the thread that executes one statement, and of the thread
\* that executes one statement after another on the same cursor
ExecOps == 3
CursorOps == 3
\* fetchone and fetchall calls of a run
FetchOps == 4
\* ids the service gives to statements
StatementIds == 2
\* longest text bound to a statement
MaxTextLen == 3
\* token cache: the calls of get_headers a thread makes, the lifetime of a fetched
\* token, how long before its zone's clock change a run begins, and how long it lasts
HeaderOps == 2
\* top-level calls of the first thread where both locks are followed
LockOps == 2
TokenLifetime == 3600
LeadTime == 3500
MaxElapsed == 3700
\* a run long enough to go on past the clock change with a token still alive
LongElapsed == 5000
\* a statement_timeout long enough for ten connection errors and their backoff
\* (5 + 10 + 20 + 40 + 5 * 60 seconds), and a poll interval that leaves room for
\* ten failed GETs before the deadline
LongStatementTimeout == 375
LongPollStatementWait == 40

\* ------------------------------------------------------- program constants
\* max_retries of _submitLivyCode
SubmitMaxRetries == 5
\* max_consecutive_errors of _getLivyResult
MaxConsecutiveErrors == 10
\* base and cap of the exponential backoff, in ticks
BackoffBase == 5
BackoffCap == 60

Threads == 1..NumThreads
None == 0

Min(a, b) == IF a < b THEN a ELSE b

RECURSIVE Pow2(_)
Pow2(n) == IF n <= 0 THEN 1 ELSE 2 * Pow2(n - 1)

\* wait = min(5 * (2 ** (attempt - 1)), 60)
Backoff_Linear(n) == Min(BackoffBase * n, BackoffCap)

Backoff_Uncapped(n) == BackoffBase * Pow2(n - 1)

Backoff(n) == Min(BackoffBase * Pow2(n - 1), BackoffCap)

\* ------------------------------------------------- the remote service's answers
\* top-level "state" and nested "livyInfo.currentState" of GET /sessions/{id}
TopStates == {"starting", "not_started", "idle"}
LivyStates == {"starting", "idle", "dead", "killed", "error", "shutting_down"}
ErrorMessages == {"absent", "boom"}

\* a response that failed before a JSON object was in hand
TransientKinds == {"req_err", "parse_err"}
NoResp == [kind |-> "none", state |-> "-", livy |-> "-", msg |-> "-"]
TransientResponses ==
    {[kind |-> k, state |-> "-", livy |-> "-", msg |-> "-"] : k \in TransientKinds}
JsonResponses ==
    {[kind |-> "json", state |-> st, livy |-> ls, msg |-> "absent"] :
        st \in TopStates, ls \in LivyStates}
    \cup {[kind |-> "json", state |-> st, livy |-> ls, msg |-> "boom"] :
        st \in TopStates, ls \in {"dead", "killed", "error"}}
\* a 2xx response whose body parses but is no object (null, a list, a text, a
\* number), or is an object whose livyInfo is null: res.get(...) or
\* res.get("livyInfo", {}).get(...), after the try block, raises AttributeError
MalformedResponses == {[kind |-> "malformed", state |-> "-", livy |-> "-", msg |-> "-"]}
SessionGetResponses == TransientResponses \cup JsonResponses \cup MalformedResponses

\* POST /sessions: a 2xx response, or any failure of the request
PostOutcomes == {"response", "error"}
\* str(response.json()["id"]): an id; an object without "id" or a body that is no
\* JSON as requests reports it (KeyError, requests' JSONDecodeError); an object
\* whose id is null; a body that is no object (TypeError); a json() that raises a
\* ValueError which is not requests' JSONDecodeError
IdOutcomes == {"id", "no_id", "null_id", "type_err", "value_err"}
\* str(None): the text 'None', which is not None and no id the service assigned
NoneText == -1
\* DELETE /sessions/{id}
DeleteOutcomes == {"200", "http_err", "conn_err"}
\* POST /sessions/{id}/statements
SubmitOutcomes == {"ok", "conn_err", "http_err"}
\* GET /sessions/{id}/statements/{id}
StatementStates == {"available", "error", "cancelled", "cancelling", "waiting", "running", "other"}
\* bad_body: a 2xx response whose body parses but is no object
StatementGetOutcomes == {"conn_err", "req_err", "parse_err", "bad_body"} \cup StatementStates
\* res_obj.json() and json_res["id"] on the response of the statement POST: an id,
\* a body that is no JSON, an object without "id", a body that is no object
SubmissionOutcomes == {"id", "parse_err", "no_id", "bad_body"}

\* a key of a JSON object that may be missing, and a Python value that may be None;
\* a key may also be there with a value of another type than the one the code
\* expects: null, or ("numbers") a list that holds a number
Absent == [some |-> FALSE, wrong |-> "-", val |-> <<>>]
Some(v) == [some |-> TRUE, wrong |-> "-", val |-> v]
Wrong(type) == [some |-> TRUE, wrong |-> type, val |-> <<>>]
Null == Wrong("null")
\* dict.get(key, default)
Get(opt, default) == IF opt.some THEN opt.val ELSE default
\* f"{value}": the text itself, and the text None for a null
Str(value) == IF value.wrong = "null" THEN <<"None">> ELSE value.val

\* strings are sequences of pieces of text; ''.join(lines) puts the lines' pieces
\* one after the other
RECURSIVE Join(_)
Join(lines) == IF lines = <<>> THEN <<>> ELSE Head(lines) \o Join(Tail(lines))

\* the "output" of a statement: the key is absent, null (or another value that is
\* no object), or an object with status (or without: status "absent"), evalue,
\* traceback and data["application/json"]; the latter is empty ({} or []), or
\* {data: rows, schema: {fields: [...]}}
\* fault, at: on the way from the output to the rows and the fields one key is
\* missing, null, or (application/json only) a list that is not empty; the keys
\* are "data" of the output, "application/json" in it, "rows" for the "data" of
\* the application/json object, its "schema" and the "fields" in it
EmptyJson == [empty |-> TRUE, fault |-> "-", at |-> "-", data |-> <<>>, fields |-> <<>>]
Json(rows, fields) == [empty |-> FALSE, fault |-> "-", at |-> "-", data |-> rows, fields |-> fields]
JsonFault(fault, key, rows, fields) == [empty |-> FALSE, fault |-> fault, at |-> key, data |-> rows, fields |-> fields]
JsonWithout(key, rows) == JsonFault("missing", key, rows, <<>>)
JsonNull(key, rows, fields) == JsonFault("null", key, rows, fields)
JsonList == JsonFault("list", "application/json", <<>>, <<>>)
Output(key, status, evalue, traceback, json) ==
    [key |-> key, status |-> status, evalue |-> evalue, traceback |-> traceback,
     json |-> json]
NoOutput == Output("absent", "-", Absent, Absent, EmptyJson)
NullOutput == Output("null", "-", Absent, Absent, EmptyJson)
Field(name, type, nullable) == [name |-> name, type |-> type, nullable |-> nullable]

\* the outputs a statement in state error, cancelled or cancelling may carry
Evalues == {Absent, Null, Some(<<"division by zero">>)}
Tracebacks == {Absent, Null, Wrong("numbers"), Some(<<>>), Some(<<<<"line 1", "\n">>, <<"line 2", "\n">>>>)}
FailureOutputs ==
    {NoOutput, NullOutput}
        \cup {Output("object", "error", e, tb, EmptyJson) : e \in Evalues, tb \in Tracebacks}
OneFailureOutput == {Output("object", "error", Some(<<"division by zero">>), Absent, EmptyJson)}

\* the outputs a statement in state available may carry
RowLists == {<<>>, <<<<2, 1>>, <<1, 2>>>>, <<<<1, 2>>, <<1, 2>>, <<3, 3>>>>}
FieldLists == {<<>>, <<Field("b", "string", FALSE), Field("a", "int", TRUE)>>}
\* the keys on the way from the output to the rows and the fields
JsonKeys == {"data", "application/json", "rows", "schema", "fields"}
\* outputs execute cannot decode as {data: rows, schema: {fields}}: none, null, an
\* object without status, status ok with a key on the way that is missing or null
\* or with a list for application/json, a failed status without evalue or with a
\* null one
UndecodableOutputs ==
    {NoOutput, NullOutput,
     Output("object", "absent", Absent, Absent, EmptyJson),
     Output("object", "ok", Absent, Absent, JsonList),
     Output("object", "error", Absent, Absent, EmptyJson),
     Output("object", "error", Null, Absent, EmptyJson)}
        \cup {Output("object", "ok", Absent, Absent, JsonWithout(k, <<<<4, 5>>>>)) : k \in JsonKeys}
        \cup {Output("object", "ok", Absent, Absent, JsonNull(k, <<<<4, 5>>>>, <<Field("c", "int", TRUE)>>)) : k \in JsonKeys}
ResultOutputs ==
    {Output("object", "ok", Absent, Absent, EmptyJson),
     Output("object", "error", Some(<<"table not found">>), Absent, EmptyJson),
     Output("object", "error", Some(<<"table not found">>), Absent,
            Json(<<<<1, 2>>>>, <<Field("a", "int", TRUE)>>))}
        \cup {Output("object", "ok", Absent, Absent, Json(rows, fields)) :
                 rows \in RowLists, fields \in FieldLists}
        \cup UndecodableOutputs
OneResultOutput == {Output("object", "ok", Absent, Absent, EmptyJson)}

\* a parsed response of GET /sessions/{id}/statements/{id}
Response(state, output) == [state |-> state, output |-> output]
NoResponse == Response("-", NoOutput)

\* ------------------------------------------------------------------- state
VARIABLES
    cfg,                  \* the credentials, and what the run may do (fixed)
    session_lock,         \* LivySessionManager._session_lock: its holder, or None
    livy_global_session,  \* LivySessionManager.livy_global_session: an index of sessions, or None
    sessions,             \* the LivySession objects built so far
    remote_ids,           \* how many session ids the remote service assigned
    pc,                   \* each thread's place in the code
    calls,                \* top-level calls each thread has made
    conn,                 \* each thread's LivyConnection and its cursor
    c,                    \* the locals of a thread's connect or disconnect call
    w,                    \* the locals of a thread's wait_for_session_start call
    s,                    \* the locals of a thread's _submitLivyCode call
    r,                    \* the locals of a thread's _getLivyResult call
    out,                  \* each thread's last top-level call and how it ended
    posts,                \* POST /sessions requests sent
    ready,                \* session ids whose readiness poll saw livyInfo.currentState idle
    faults,               \* a creation failed, or a validity check of connect said invalid
    shortcut_calls,       \* ShortcutClient.create_shortcuts calls
    token_lock,           \* _token_lock: its holder, or None
    accessToken,          \* the module's cached AccessToken
    clock,                \* time.time(), in seconds
    hd,                   \* the locals of a thread's get_headers call
    fetches,              \* the token fetches made: who asked which provider, and when
    fn,                   \* the argument and the result of a function applied on its own
    ledger,               \* what became of the remote sessions and of the creations
    sc                    \* a shortcut check: the service's shortcut and the requests sent

vars == <<cfg, session_lock, livy_global_session, sessions, remote_ids, pc, calls, conn,
          c, w, s, r, out, posts, ready, faults, shortcut_calls, token_lock,
          accessToken, clock, hd, fetches, fn, ledger, sc>>

\* the state the session manager and the cursors leave alone
outside == <<token_lock, accessToken, clock, fetches, fn, ledger, sc>>

NoErr == [kind |-> "none", sid |-> None, msg |-> "-", limit |-> 0]
Err(k, sid, msg, limit) == [kind |-> k, sid |-> sid, msg |-> msg, limit |-> limit]

\* a LivyConnection and its one LivyCursor: rows, schema and fetch_index are the
\* cursor's _rows, _schema (None, or a list) and _fetch_index
NoConn == [session_id |-> None, cursor_sid |-> None, livy_session |-> None,
           rows |-> Absent, schema |-> Absent, fetch_index |-> 0]
\* vgets, vresp: the GETs of the call's validity check and the response it judged,
\* kept until the call's next step
NoCall == [caller |-> "-", branch |-> "-", obj |-> None, old |-> None, new |-> None,
           valid |-> FALSE, marked |-> FALSE, del_sent |-> FALSE, del_ok |-> FALSE,
           posted |-> FALSE, err |-> NoErr, vgets |-> 0, vresp |-> NoResp]
NoWait == [elapsed |-> 0, started |-> 0, gets |-> 0, sleeps |-> 0, slept |-> 0,
           starting |-> 0, others |-> 0, transients |-> 0,
           last |-> NoResp, res |-> "none"]
\* client: the HTTP client the thread read for its request (none, open, closed);
\* current: whether it is still the session object's client
\* last: how the last POST ended, where the run records it
\* via: whether the submission began with a reconnect, where the run records it
NoSubmit == [attempt |-> 0, client |-> "none", current |-> FALSE, rebuilds |-> 0,
             slept |-> 0, last |-> "-", via |-> "-"]
\* errors: consecutive_errors; last: how the last GET ended, where the run records it
\* stmt: statement_id
NoResult == [elapsed |-> 0, errors |-> 0, client |-> "none", current |-> FALSE,
             last |-> "-", stmt |-> None]
\* prev: the call the thread made before this one, where the run records it
\* limit: the number the error message gives (attempts, failures, or the timeout)
\* stmt: the statement id the error message gives
\* res, msg: the statement response the call ended on and the text of the error
\* raised on it, where the run records them
NoOut == [op |-> "-", status |-> "-", kind |-> "none", waited |-> FALSE, prev |-> "-",
          limit |-> 0, stmt |-> None, res |-> NoResponse, msg |-> <<>>]

\* LivySession.__init__; http_session is the state of the object's current HTTP
\* client (requests.Session): open, or closed
NewLivySession ==
    [session_id |-> None, is_new_session_required |-> TRUE, http_session |-> "open"]

\* what a run keeps of a response: all of it where observations are recorded
Seen(resp) == IF cfg.observe THEN resp ELSE NoResp

\* ------------------------------------------------------------ the token cache
\* text is a sequence of one-character strings
Cli == <<"c", "l", "i">>
IntTests == <<"i", "n", "t", "_", "t", "e", "s", "t", "s">>
\* authentication: str = "az_cli"
AzCli == <<"a", "z", "_", "c", "l", "i">>
\* credentials.authentication unset
NoAuthentication == <<"<None>">>

\* the time zone of the process: the offsets of local time from UTC, in seconds,
\* before and from the instant `at` on
\* 2026-03-29 01:00:00 UTC and 2026-10-25 01:00:00 UTC, when Central European
\* clocks go forward and back
SpringForward == 1774746000
FallBack == 1792890000
Utc == [at |-> SpringForward, before |-> 0, after |-> 0]
Zones ==
    {Utc, [at |-> SpringForward, before |-> 3600, after |-> 7200],
     [at |-> FallBack, before |-> 7200, after |-> 3600]}

\* accessToken: AccessToken = None; a fetched token carries the number of the fetch
NoToken == [token |-> None, expires_on |-> 0]
AccessToken(token, expires_on) == [token |-> token, expires_on |-> expires_on]
\* get_default_access_token: expires_on = 1845972874
DefaultExpiresOn == 1845972874

\* the locals of get_headers: where the call is, the cached token it found and when,
\* whether it fetched, and the token of the header it built
NoHeaders == [at |-> "none", had |-> NoToken, time |-> 0, fetched |-> FALSE,
              token |-> None, expires_on |-> 0]

\* where the run keeps them: the session ids whose DELETE was answered 200 or that
\* a response showed in a state of InvalidStates, and the LivySession objects whose
\* last create_session raised
NoLedger == [gone |-> {}, failed |-> {}]
Kept(l) == IF cfg.history THEN l ELSE ledger
Gone(sid) == Kept([ledger EXCEPT !.gone = @ \cup {sid}])

\* a function applied on its own: its name, its argument, and its result once it
\* has returned or raised
NoFn == [op |-> "-", at |-> "-", arg |-> <<>>, res |-> <<>>]

\* ShortcutClient.create_shortcut before it is called
NoShortcutCheck == [at |-> "none"]

\* the credentials (timeouts in ticks), the longest time one HTTP exchange takes,
\* whether the readiness poll's observations are recorded, and the number of
\* top-level calls each thread makes; null_ids: whether the service may answer
\* POST /sessions with an object whose id is null; steps: by how many seconds the
\* clock may move at once
Credentials(start_timeout, statement_timeout, poll_statement_wait, http_delay, observe, budget, statements) ==
    [session_start_timeout |-> start_timeout, poll_wait |-> PollWait,
     statement_timeout |-> statement_timeout, poll_statement_wait |-> poll_statement_wait,
     create_shortcuts |-> TRUE, http_delay |-> http_delay, observe |-> observe,
     budget |-> budget, statements |-> statements,
     authentication |-> AzCli, accessToken |-> 99, tz |-> Utc, tokens |-> FALSE,
     max_elapsed |-> MaxElapsed, steps |-> {1100, 3400}, history |-> FALSE,
     null_ids |-> FALSE]

\* what the service may answer about statements: the ids it gives them, and the
\* outputs of failed and of available statements
Statements(ids, failure_outputs, result_outputs) ==
    [ids |-> ids, failure_outputs |-> failure_outputs, result_outputs |-> result_outputs]

\* no call has been made
Idle ==
    /\ session_lock = None
    /\ livy_global_session = None
    /\ sessions = <<>>
    /\ remote_ids = 0
    /\ pc = [t \in Threads |-> "idle"]
    /\ calls = [t \in Threads |-> 0]
    /\ conn = [t \in Threads |-> NoConn]
    /\ c = [t \in Threads |-> NoCall]
    /\ w = [t \in Threads |-> NoWait]
    /\ s = [t \in Threads |-> NoSubmit]
    /\ r = [t \in Threads |-> NoResult]
    /\ out = [t \in Threads |-> NoOut]
    /\ posts = 0
    /\ ready = {}
    /\ faults = FALSE
    /\ shortcut_calls = 0
    /\ token_lock = None
    /\ accessToken = NoToken
    /\ clock = cfg.tz.at - LeadTime
    /\ hd = [t \in Threads |-> NoHeaders]
    /\ fetches = <<>>
    /\ ledger = NoLedger

Init0 ==
    /\ Idle
    /\ fn = NoFn
    /\ sc = NoShortcutCheck

\* one thread makes its calls, with a long start timeout and slow HTTP exchanges;
\* what the readiness poll observes is recorded
PollInit ==
    /\ cfg = Credentials(SessionStartTimeout, StatementTimeout, PollStatementWait,
                         HttpDelayMax, TRUE,
                         [t \in Threads |-> IF t = 1 THEN PollOps ELSE 0],
                         Statements({1}, OneFailureOutput, OneResultOutput))
    /\ Init0

\* every thread makes its calls; the start timeout is short
Init ==
    /\ cfg = Credentials(ShortStartTimeout, StatementTimeout, PollStatementWait, 0, FALSE,
                         [t \in Threads |-> MaxOps],
                         Statements({1}, OneFailureOutput, OneResultOutput))
    /\ Init0

\* one thread connects and executes, with a long statement timeout; what the calls
\* observe is recorded
RetryInit ==
    /\ cfg = Credentials(ShortStartTimeout, LongStatementTimeout, LongPollStatementWait,
                         0, TRUE, [t \in Threads |-> IF t = 1 THEN ExecOps ELSE 0],
                         Statements(1..StatementIds, OneFailureOutput, OneResultOutput))
    /\ Init0

\* one thread connects and executes statements whose responses carry every kind
\* of output; the timeouts are short, and what the calls observe is recorded
ExecInit ==
    /\ cfg = Credentials(ShortStartTimeout, StatementTimeout, PollStatementWait, 0, TRUE,
                         [t \in Threads |-> IF t = 1 THEN CursorOps ELSE 0],
                         Statements({1}, FailureOutputs, ResultOutputs))
    /\ Init0

\* --------------------------------------------------------------- decisions
\* threading.Lock: acquired only when no thread holds it
LockFree_Always == TRUE

LockFree == session_lock = None

\* is_valid_session: no id, or any failure of the GET, is invalid; otherwise the
\* nested engine state decides
InvalidStates == {"dead", "shutting_down", "killed", "error"}
\* it returns True or False, or the AttributeError of the line after its try block
\* leaves it
IsValidSession(session_id, resp) ==
    IF session_id = None THEN "False"
    ELSE IF resp.kind = "malformed" THEN "AttributeError"
    ELSE IF resp.kind # "json" THEN "False"
    ELSE IF resp.livy \in InvalidStates THEN "False"
    ELSE "True"

\* the if/elif chain of connect
ConnectBranch_NoRestart(exists, valid, marked) ==
    IF ~exists THEN "first"
    ELSE IF ~valid THEN "invalid"
    ELSE "reuse"

ConnectBranch(exists, valid, marked) ==
    IF ~exists THEN "first"
    ELSE IF ~valid THEN "invalid"
    ELSE IF marked THEN "restart"
    ELSE "reuse"

\* time.monotonic() > deadline, with deadline = start + timeout
DeadlineExceeded(elapsed, timeout) == elapsed > timeout

\* _getLivyResult: if time.monotonic() > deadline, with deadline the time the poll
\* began plus statement_timeout
StatementDeadlinePassed(elapsed, timeout) == elapsed > timeout

\* what wait_for_session_start does with a failed GET or an unparseable body, after
\* `transients` such failures in a row
OnPollError_GiveUp(kind, transients) == IF transients >= 1 THEN "raise" ELSE "retry"

OnPollError(kind, transients) == "retry"

\* the if/elif chain of wait_for_session_start on a parsed response
PollDecision_TopIdle(state, livy_state) ==
    IF state \in {"starting", "not_started"} THEN "sleep"
    ELSE IF state = "idle" THEN "ready"
    ELSE IF livy_state \in {"dead", "killed", "error"} THEN "fatal"
    ELSE "sleep"

PollDecision_ErrorNotFatal(state, livy_state) ==
    IF state \in {"starting", "not_started"} THEN "sleep"
    ELSE IF livy_state = "idle" THEN "ready"
    ELSE IF livy_state \in {"dead", "killed"} THEN "fatal"
    ELSE "sleep"

PollDecision(state, livy_state) ==
    IF state \in {"starting", "not_started"} THEN "sleep"
    ELSE IF livy_state = "idle" THEN "ready"
    ELSE IF livy_state \in {"dead", "killed", "error"} THEN "fatal"
    ELSE "sleep"

\* time.sleep(self.poll_wait): the time the poll asks to sleep
PollSleep_Backoff(poll_wait, sleeps) == poll_wait * (sleeps + 1)

PollSleep(poll_wait, sleeps) == poll_wait

\* res.get("livyInfo", {}).get("errorMessage", "No error details")
ErrorMessage(resp) == IF resp.msg = "absent" THEN "No error details" ELSE resp.msg

Set(f, t, v) == [f EXCEPT ![t] = v]

\* ---------------------------------------------------------------- get_headers
\* str.lower(), on the capital letters that occur
Lower(text) ==
    [i \in DOMAIN text |->
        CASE text[i] = "A" -> "a" [] text[i] = "C" -> "c" [] text[i] = "E" -> "e"
          [] text[i] = "I" -> "i" [] text[i] = "L" -> "l" [] text[i] = "N" -> "n"
          [] text[i] = "S" -> "s" [] text[i] = "T" -> "t" [] text[i] = "Z" -> "z"
          [] OTHER -> text[i]]

\* the if/elif/else of get_headers on credentials.authentication: an unset or empty
\* value is falsy
TokenSource_CaseSensitive(authentication) ==
    IF authentication \notin {NoAuthentication, <<>>} /\ authentication = Cli
    THEN "cli"
    ELSE IF authentication \notin {NoAuthentication, <<>>} /\ authentication = IntTests
    THEN "int_tests"
    ELSE "sp"

TokenSource(authentication) ==
    IF authentication \notin {NoAuthentication, <<>>} /\ Lower(authentication) = Cli
    THEN "cli"
    ELSE IF authentication \notin {NoAuthentication, <<>>} /\ Lower(authentication) = IntTests
    THEN "int_tests"
    ELSE "sp"

\* time.localtime / datetime.fromtimestamp: the naive local time of an instant
LocalTime(tz, unixTimestamp) ==
    unixTimestamp + (IF unixTimestamp < tz.at THEN tz.before ELSE tz.after)

\* int(x / y): towards zero
TruncDiv(x, y) == IF x >= 0 THEN x \div y ELSE -((-x) \div y)

\* difference = fromtimestamp(unixTimestamp) - fromtimestamp(mktime(localtime(now)));
\* int(difference.total_seconds() / 60) < 5
IsTokenRefreshNecessary(unixTimestamp, now, tz) ==
    TruncDiv(LocalTime(tz, unixTimestamp) - LocalTime(tz, now), 60) < 5

\* if accessToken is None or is_token_refresh_necessary(accessToken.expires_on)
NeedsFetch(cached, now, tz) ==
    cached = NoToken \/ IsTokenRefreshNecessary(cached.expires_on, now, tz)

\* get_cli_access_token, get_default_access_token, get_sp_access_token: the
\* identity providers answer with a new token that lives TokenLifetime seconds
FetchedToken(source, serial, now) ==
    IF source = "int_tests"
    THEN AccessToken(cfg.accessToken, DefaultExpiresOn)
    ELSE AccessToken(serial, now + TokenLifetime)

\* _token_lock, a threading.Lock
TokenLockFree == token_lock = None

\* a thread calls get_headers on its own
StartHeaders(t) ==
    /\ pc[t] = "idle" /\ calls[t] < cfg.budget[t]
    /\ calls' = Set(calls, t, calls[t] + 1)
    /\ pc' = Set(pc, t, "h_call")
    /\ hd' = Set(hd, t, NoHeaders)
    /\ out' = Set(out, t, [NoOut EXCEPT !.op = "get_headers", !.status = "running"])
    /\ UNCHANGED <<outside, cfg, session_lock, livy_global_session, sessions,
                   remote_ids, conn, c, w, s, r, posts, ready, faults, shortcut_calls>>

\* the thread's next step sends a request of the session manager or of a cursor,
\* whose headers=get_headers(...) argument is evaluated first; a delete or a
\* validity check of a session without an id sends none
NeedsHeaders(t) ==
    CASE pc[t] \in {"c_valid", "c_delete", "d_valid", "d_delete"} ->
            sessions[livy_global_session].session_id # None
      [] pc[t] \in {"cs_post", "s_send", "r_send"} -> TRUE
      [] pc[t] = "w_loop" -> ~DeadlineExceeded(w[t].elapsed, cfg.session_start_timeout)
      [] OTHER -> FALSE

\* where a thread is about to call get_headers: on its own, or for a request when
\* the run follows the token cache
InHeaders(t) == pc[t] = "h_call" \/ (cfg.tokens /\ NeedsHeaders(t))

\* the request's headers have been built
HeadersReady(t) == cfg.tokens /\ NeedsHeaders(t) => hd[t].at = "done"

\* the request is sent with them
HeadersUsed(t) == hd' = Set(hd, t, NoHeaders)

\* with _token_lock:
HeadersLock(t) ==
    /\ InHeaders(t) /\ hd[t].at = "none"
    /\ TokenLockFree
    /\ token_lock' = t
    /\ hd' = Set(hd, t, [hd[t] EXCEPT !.at = "check"])
    /\ UNCHANGED <<ledger, accessToken, clock, fetches, fn, sc, cfg, session_lock,
                   livy_global_session, sessions, remote_ids, pc, calls, conn, c, w, s,
                   r, out, posts, ready, faults, shortcut_calls>>

\* if accessToken is None or is_token_refresh_necessary(accessToken.expires_on):
HeadersCheck(t) ==
    /\ hd[t].at = "check"
    /\ hd' = Set(hd, t, [hd[t] EXCEPT !.had = accessToken, !.time = clock,
                                     !.at = IF NeedsFetch(accessToken, clock, cfg.tz)
                                            THEN "fetch" ELSE "read"])
    /\ UNCHANGED <<ledger, token_lock, accessToken, clock, fetches, fn, sc, cfg, session_lock,
                   livy_global_session, sessions, remote_ids, pc, calls, conn, c, w, s,
                   r, out, posts, ready, faults, shortcut_calls>>

\* accessToken = get_..._access_token(credentials)
HeadersFetch(t) ==
    /\ hd[t].at = "fetch"
    /\ LET source == TokenSource(cfg.authentication)
           fetched == FetchedToken(source, Len(fetches) + 1, clock)
       IN /\ accessToken' = fetched
          /\ fetches' = Append(fetches, [by |-> t, source |-> source, at |-> clock,
                                         token |-> fetched])
    /\ hd' = Set(hd, t, [hd[t] EXCEPT !.fetched = TRUE, !.at = "read"])
    /\ UNCHANGED <<ledger, token_lock, clock, fn, sc, cfg, session_lock, livy_global_session,
                   sessions, remote_ids, pc, calls, conn, c, w, s, r, out, posts, ready,
                   faults, shortcut_calls>>

\* the cached token once a provider has raised: the assignment is not reached
AfterRaise_Cleared(cached) == NoToken

AfterRaise(cached) == cached

\* token = accessToken.token; the lock is released
HeadersRead(t) ==
    /\ hd[t].at = "read"
    /\ hd' = Set(hd, t, [hd[t] EXCEPT !.token = accessToken.token,
                                     !.expires_on = accessToken.expires_on,
                                     !.at = "done"])
    /\ token_lock' = None
    /\ UNCHANGED <<ledger, accessToken, clock, fetches, fn, sc, cfg, session_lock,
                   livy_global_session, sessions, remote_ids, pc, calls, conn, c, w, s,
                   r, out, posts, ready, faults, shortcut_calls>>

\* headers = {..., "Authorization": f"Bearer {token}"}; return headers
HeadersReturn(t) ==
    /\ pc[t] = "h_call" /\ hd[t].at = "done"
    /\ pc' = Set(pc, t, "idle")
    /\ out' = Set(out, t, [out[t] EXCEPT !.status = "ok"])
    /\ UNCHANGED <<outside, hd, cfg, session_lock, livy_global_session, sessions,
                   remote_ids, calls, conn, c, w, s, r, posts, ready, faults,
                   shortcut_calls>>

\* time passes, by one of the steps the run takes
Tick ==
    /\ \E d \in cfg.steps :
         /\ clock + d <= cfg.tz.at - LeadTime + cfg.max_elapsed
         /\ clock' = clock + d
    /\ UNCHANGED <<ledger, token_lock, accessToken, hd, fetches, fn, sc, cfg, session_lock,
                   livy_global_session, sessions, remote_ids, pc, calls, conn, c, w, s,
                   r, out, posts, ready, faults, shortcut_calls>>

\* ------------------------------------------------------------ top-level calls
\* a call begins with no get_headers call of the thread under way: every request
\* of the call evaluates headers=get_headers(...) anew; of the thread's fetches
\* the run keeps those made since its last top-level call began
SinceCall(t) ==
    IF fn.arg = <<>> THEN fn
    ELSE [fn EXCEPT !.arg = SelectSeq(@, LAMBDA f : f.by # t)]

StartConnect(t) ==
    /\ pc[t] = "idle" /\ calls[t] < cfg.budget[t]
    /\ calls' = Set(calls, t, calls[t] + 1)
    /\ pc' = Set(pc, t, "c_lock")
    /\ c' = Set(c, t, [NoCall EXCEPT !.caller = "top"])
    /\ out' = Set(out, t, [op |-> "connect", status |-> "running", kind |-> "none",
                           waited |-> session_lock # None,
                           prev |-> IF cfg.observe THEN out[t].op ELSE "-",
                           limit |-> 0, stmt |-> None, res |-> NoResponse,
                           msg |-> <<>>])
    /\ s' = Set(s, t, NoSubmit)
    /\ hd' = Set(hd, t, NoHeaders)
    /\ fn' = SinceCall(t)
    /\ UNCHANGED <<token_lock, accessToken, clock, fetches, ledger, sc, cfg, session_lock,
                   livy_global_session, sessions, remote_ids, conn, w, r, posts, ready,
                   faults, shortcut_calls>>

StartDisconnect(t) ==
    /\ pc[t] = "idle" /\ calls[t] < cfg.budget[t]
    /\ calls' = Set(calls, t, calls[t] + 1)
    /\ pc' = Set(pc, t, "d_lock")
    /\ c' = Set(c, t, [NoCall EXCEPT !.caller = "top"])
    /\ out' = Set(out, t, [op |-> "disconnect", status |-> "running", kind |-> "none",
                           waited |-> session_lock # None,
                           prev |-> IF cfg.observe THEN out[t].op ELSE "-",
                           limit |-> 0, stmt |-> None, res |-> NoResponse,
                           msg |-> <<>>])
    /\ s' = Set(s, t, NoSubmit)
    /\ hd' = Set(hd, t, NoHeaders)
    /\ fn' = SinceCall(t)
    /\ UNCHANGED <<token_lock, accessToken, clock, fetches, ledger, sc, cfg, session_lock,
                   livy_global_session, sessions, remote_ids, conn, w, r, posts, ready,
                   faults, shortcut_calls>>

StartExecute(t) ==
    /\ pc[t] = "idle" /\ calls[t] < cfg.budget[t]
    /\ conn[t] # NoConn
    /\ calls' = Set(calls, t, calls[t] + 1)
    /\ pc' = Set(pc, t, "s_check")
    /\ out' = Set(out, t, [op |-> "execute", status |-> "running", kind |-> "none",
                           waited |-> FALSE,
                           prev |-> IF cfg.observe THEN out[t].op ELSE "-",
                           limit |-> 0, stmt |-> None, res |-> NoResponse,
                           msg |-> <<>>])
    /\ s' = Set(s, t, NoSubmit)
    /\ hd' = Set(hd, t, NoHeaders)
    /\ fn' = SinceCall(t)
    /\ UNCHANGED <<token_lock, accessToken, clock, fetches, ledger, sc, cfg, session_lock,
                   livy_global_session, sessions, remote_ids, conn, c, w, r, posts, ready,
                   faults, shortcut_calls>>

\* ------------------------------------------------- LivySessionManager.connect
\* with _session_lock: ... if livy_global_session is None: LivySession(credentials)
ConnectLock_NoAcquire(t) ==
    /\ pc[t] = "c_lock"
    /\ IF livy_global_session = None
       THEN /\ sessions' = Append(sessions, NewLivySession)
            /\ livy_global_session' = Len(sessions) + 1
            /\ c' = Set(c, t, [c[t] EXCEPT !.branch = "first", !.obj = Len(sessions) + 1])
            /\ pc' = Set(pc, t, "cs_post")
       ELSE /\ pc' = Set(pc, t, "c_valid")
            /\ UNCHANGED <<sessions, livy_global_session, c>>
    /\ UNCHANGED <<outside, hd, cfg, session_lock, remote_ids, calls, conn, w, s, r,
                   out, posts, ready, faults, shortcut_calls>>

ConnectLock(t) ==
    /\ pc[t] = "c_lock"
    /\ LockFree
    /\ session_lock' = t
    /\ IF livy_global_session = None
       THEN /\ sessions' = Append(sessions, NewLivySession)
            /\ livy_global_session' = Len(sessions) + 1
            /\ c' = Set(c, t, [c[t] EXCEPT !.branch = ConnectBranch(FALSE, FALSE, FALSE),
                                           !.obj = Len(sessions) + 1])
            /\ pc' = Set(pc, t, "cs_post")
       ELSE /\ pc' = Set(pc, t, "c_valid")
            /\ UNCHANGED <<sessions, livy_global_session, c>>
    /\ UNCHANGED <<outside, hd, cfg, remote_ids, calls, conn, w, s, r, out, posts,
                   ready, faults, shortcut_calls>>

\* elif not livy_global_session.is_valid_session(): ... elif is_new_session_required: ...
ConnectValidate(t) ==
    /\ pc[t] = "c_valid"
    /\ HeadersReady(t)
    /\ LET o == livy_global_session
           sid == sessions[o].session_id
       IN \E resp \in (IF sid = None THEN {NoResp} ELSE SessionGetResponses) :
            LET answer == IsValidSession(sid, resp)
                valid == answer = "True"
                marked == sessions[o].is_new_session_required
                b == ConnectBranch(TRUE, valid, marked)
            IN /\ IF answer = "AttributeError"
                  THEN /\ c' = Set(c, t, [c[t] EXCEPT !.obj = o, !.old = sid, !.vgets = 1,
                                                      !.vresp = Seen(resp),
                                                      !.err = Err("attribute_error", sid,
                                                                  "-", 0)])
                       /\ pc' = Set(pc, t, "c_raise")
                  ELSE /\ c' = Set(c, t, [c[t] EXCEPT !.branch = b, !.obj = o, !.old = sid,
                                                      !.valid = valid, !.marked = marked,
                                                      !.vgets = IF sid = None THEN 0 ELSE 1,
                                                      !.vresp = Seen(resp)])
                       /\ pc' = Set(pc, t, CASE b = "invalid" -> "c_delete"
                                             [] b = "restart" -> "cs_post"
                                             [] OTHER -> "c_conn")
               /\ faults' = (faults \/ ~valid)
               /\ ledger' = IF resp.kind = "json" /\ resp.livy \in InvalidStates
                            THEN Gone(sid) ELSE ledger
    /\ HeadersUsed(t)
    /\ UNCHANGED <<token_lock, accessToken, clock, fetches, fn, sc, cfg, session_lock,
                   livy_global_session, sessions, remote_ids, calls, conn, w, s, r, out,
                   posts, ready, shortcut_calls>>

\* try: delete_session() except: log; livy_global_session = LivySession(credentials)
\* (delete_session itself logs every failure; with no session id the URL cannot be
\* built and no request is sent)
ConnectDelete_NoDelete(t) ==
    /\ pc[t] = "c_delete"
    /\ c' = Set(c, t, [c[t] EXCEPT !.obj = Len(sessions) + 1, !.vresp = NoResp])
    /\ sessions' = Append(sessions, NewLivySession)
    /\ livy_global_session' = Len(sessions) + 1
    /\ pc' = Set(pc, t, "cs_post")
    /\ UNCHANGED <<outside, hd, cfg, session_lock, remote_ids, calls, conn, w, s, r,
                   out, posts, ready, faults, shortcut_calls>>

ConnectDelete(t) ==
    /\ pc[t] = "c_delete"
    /\ HeadersReady(t)
    /\ LET sid == sessions[livy_global_session].session_id
       IN \E outc \in (IF sid = None THEN {"no_request"} ELSE DeleteOutcomes) :
            /\ c' = Set(c, t, [c[t] EXCEPT !.obj = Len(sessions) + 1,
                                           !.del_sent = (sid # None),
                                           !.del_ok = (outc = "200"),
                                           !.vresp = NoResp])
            /\ ledger' = IF outc = "200" THEN Gone(sid) ELSE ledger
    /\ sessions' = Append(sessions, NewLivySession)
    /\ livy_global_session' = Len(sessions) + 1
    /\ pc' = Set(pc, t, "cs_post")
    /\ HeadersUsed(t)
    /\ UNCHANGED <<token_lock, accessToken, clock, fetches, fn, sc, cfg, session_lock,
                   remote_ids, calls, conn, w, s, r, out, posts, ready, faults,
                   shortcut_calls>>

\* ------------------------------------------------ LivySession.create_session
\* response = http_session.post(connect_url + "/sessions", ...); raise_for_status();
\* every failure is raised as FailedToConnectError; self.session_id = None
CreatePost(t) ==
    /\ pc[t] = "cs_post"
    /\ HeadersReady(t)
    /\ posts' = posts + 1
    /\ \E outc \in PostOutcomes :
         IF outc = "error"
         THEN /\ c' = Set(c, t, [c[t] EXCEPT !.posted = TRUE, !.vresp = NoResp,
                                             !.err = Err("create_failed", None, "-", 0)])
              /\ pc' = Set(pc, t, "c_raise")
              /\ faults' = TRUE
              /\ UNCHANGED sessions
         ELSE /\ c' = Set(c, t, [c[t] EXCEPT !.posted = TRUE, !.vresp = NoResp])
              /\ sessions' = [sessions EXCEPT ![c[t].obj].session_id = None]
              /\ pc' = Set(pc, t, "cs_parse")
              /\ UNCHANGED faults
    /\ HeadersUsed(t)
    /\ UNCHANGED <<outside, cfg, session_lock, livy_global_session, remote_ids, calls,
                   conn, w, s, r, out, ready, shortcut_calls>>

\* what the try block around str(response.json()["id"]) does with an outcome: the
\* except clause names requests' JSONDecodeError and KeyError only
OnIdOutcome(outc) ==
    CASE outc \in {"id", "null_id"} -> "assign"
      [] outc = "no_id" -> "no_session_id"
      [] outc = "type_err" -> "type_error"
      [] OTHER -> "value_error"

\* self.session_id = str(response.json()["id"]); deadline = time.monotonic() + timeout
CreateParse(t) ==
    /\ pc[t] = "cs_parse"
    /\ \E outc \in {o \in IdOutcomes : o = "null_id" => cfg.null_ids} :
         IF OnIdOutcome(outc) # "assign"
         THEN /\ c' = Set(c, t, [c[t] EXCEPT !.err = Err(OnIdOutcome(outc), None, "-", 0)])
              /\ pc' = Set(pc, t, "c_raise")
              /\ faults' = TRUE
              /\ UNCHANGED <<sessions, remote_ids, w>>
         ELSE LET id == IF outc = "null_id" THEN NoneText ELSE remote_ids + 1
              IN /\ remote_ids' = IF outc = "null_id" THEN remote_ids ELSE remote_ids + 1
                 /\ sessions' = [sessions EXCEPT ![c[t].obj].session_id = id]
                 /\ c' = Set(c, t, [c[t] EXCEPT !.new = id])
                 /\ w' = Set(w, t, NoWait)
                 /\ pc' = Set(pc, t, "w_loop")
                 /\ UNCHANGED faults
    /\ UNCHANGED <<outside, hd, cfg, session_lock, livy_global_session, calls, conn, s,
                   r, out, posts, ready, shortcut_calls>>

\* ---------------------------------------- LivySession.wait_for_session_start
StartingTop(resp) == resp.kind = "json" /\ resp.state \in {"starting", "not_started"}

\* the poll's locals; its observations are kept only when they are recorded
Observed(me) ==
    IF cfg.observe THEN me ELSE [NoWait EXCEPT !.elapsed = me.elapsed, !.res = me.res]

\* time.sleep(self.poll_wait) at the end of an iteration that does not end the poll
Slept(me, resp) ==
    [me EXCEPT !.elapsed = @ + PollSleep(cfg.poll_wait, me.sleeps),
               !.sleeps = @ + 1,
               !.slept = @ + PollSleep(cfg.poll_wait, me.sleeps),
               !.starting = IF StartingTop(resp) THEN @ + 1 ELSE @,
               !.others = IF StartingTop(resp) THEN @ ELSE @ + 1,
               !.transients = IF resp.kind = "json" THEN 0 ELSE @ + 1]

\* one iteration of the while True loop
WaitForSessionStart(t) ==
    /\ pc[t] = "w_loop"
    /\ HeadersReady(t)
    /\ LET me == w[t]
           o == c[t].obj
           sid == sessions[o].session_id
       IN IF DeadlineExceeded(me.elapsed, cfg.session_start_timeout)
          THEN /\ w' = Set(w, t, Observed([me EXCEPT !.res = "timeout"]))
               /\ c' = Set(c, t, [c[t] EXCEPT !.err =
                        Err("start_timeout", sid, "-", cfg.session_start_timeout)])
               /\ pc' = Set(pc, t, "c_raise")
               /\ faults' = TRUE
               /\ UNCHANGED <<sessions, ready, ledger>>
          ELSE \E resp \in SessionGetResponses, d \in 0..cfg.http_delay :
               LET got == [me EXCEPT !.gets = @ + 1, !.started = me.elapsed,
                                     !.elapsed = @ + d, !.last = resp]
                   act == IF resp.kind = "malformed" THEN "crash"
                          ELSE IF resp.kind # "json"
                          THEN OnPollError(resp.kind, me.transients)
                          ELSE PollDecision(resp.state, resp.livy)
               IN CASE act \in {"retry", "sleep"} ->
                        /\ w' = Set(w, t, Observed(Slept(got, resp)))
                        /\ UNCHANGED <<c, pc, sessions, ready, faults, ledger>>
                    [] act = "ready" ->
                        /\ w' = Set(w, t, Observed([got EXCEPT !.res = "ready"]))
                        /\ sessions' = [sessions EXCEPT ![o].is_new_session_required = FALSE]
                        /\ ready' = IF resp.livy = "idle" THEN ready \cup {sid} ELSE ready
                        /\ pc' = Set(pc, t, "c_conn")
                        /\ UNCHANGED <<c, faults, ledger>>
                    [] act = "fatal" ->
                        /\ w' = Set(w, t, Observed([got EXCEPT !.res = "fatal"]))
                        /\ c' = Set(c, t, [c[t] EXCEPT !.err =
                                 Err("session_dead", sid, ErrorMessage(resp), 0)])
                        /\ pc' = Set(pc, t, "c_raise")
                        /\ faults' = TRUE
                        /\ ledger' = Gone(sid)
                        /\ UNCHANGED <<sessions, ready>>
                    [] act = "crash" ->
                        /\ w' = Set(w, t, Observed([got EXCEPT !.res = "crashed"]))
                        /\ c' = Set(c, t, [c[t] EXCEPT !.err =
                                 Err("attribute_error", sid, "-", 0)])
                        /\ pc' = Set(pc, t, "c_raise")
                        /\ faults' = TRUE
                        /\ UNCHANGED <<sessions, ready, ledger>>
                    [] OTHER ->
                        /\ w' = Set(w, t, Observed([got EXCEPT !.res = "aborted"]))
                        /\ c' = Set(c, t, [c[t] EXCEPT !.err =
                                 Err("poll_failed", sid, "-", 0)])
                        /\ pc' = Set(pc, t, "c_raise")
                        /\ faults' = TRUE
                        /\ UNCHANGED <<sessions, ready, ledger>>
    /\ HeadersUsed(t)
    /\ UNCHANGED <<token_lock, accessToken, clock, fetches, fn, sc, cfg, session_lock,
                   livy_global_session, remote_ids, calls, conn, s, r, out, posts,
                   shortcut_calls>>

\* ------------------------------------------ connect: its end, either way
\* is_new_session_required = False; shortcuts on the branch that built the first
\* session; LivyConnection(credentials, livy_global_session); the lock is released
ConnectReturn(t) ==
    /\ pc[t] = "c_conn"
    /\ LET o == livy_global_session
           sid == sessions[o].session_id
           created == c[t].branch # "reuse"
       IN /\ sessions' = IF created
                         THEN [sessions EXCEPT ![o].is_new_session_required = FALSE]
                         ELSE sessions
          /\ ledger' = IF created THEN Kept([ledger EXCEPT !.failed = @ \ {o}])
                        ELSE ledger
          /\ shortcut_calls' = IF c[t].branch = "first" /\ cfg.create_shortcuts
                               THEN shortcut_calls + 1 ELSE shortcut_calls
          /\ IF c[t].caller = "top"
             THEN /\ conn' = Set(conn, t, [NoConn EXCEPT !.session_id = sid,
                                                         !.cursor_sid = sid,
                                                         !.livy_session = o])
                  /\ pc' = Set(pc, t, "idle")
                  /\ out' = Set(out, t, [out[t] EXCEPT !.status = "ok"])
             ELSE /\ pc' = Set(pc, t, "s_after")
                  /\ UNCHANGED <<conn, out>>
    /\ session_lock' = None
    /\ c' = Set(c, t, NoCall)
    /\ w' = Set(w, t, NoWait)
    /\ UNCHANGED <<token_lock, accessToken, clock, fetches, fn, sc, hd, cfg,
                   livy_global_session, remote_ids, calls, s, r, posts, ready, faults>>

\* an exception leaves the with block: the lock is released, the caller sees it
ConnectRaise_KeepLock(t) ==
    /\ pc[t] = "c_raise"
    /\ pc' = Set(pc, t, "idle")
    /\ out' = Set(out, t, [out[t] EXCEPT !.status = "raised", !.kind = c[t].err.kind,
                                         !.limit = c[t].err.limit])
    /\ c' = Set(c, t, NoCall)
    /\ w' = Set(w, t, NoWait)
    /\ UNCHANGED <<outside, hd, cfg, session_lock, livy_global_session, sessions,
                   remote_ids, calls, conn, s, r, posts, ready, faults, shortcut_calls>>

ConnectRaise(t) ==
    /\ pc[t] = "c_raise"
    /\ session_lock' = None
    /\ pc' = Set(pc, t, "idle")
    /\ out' = Set(out, t, [out[t] EXCEPT !.status = "raised", !.kind = c[t].err.kind,
                                         !.limit = c[t].err.limit])
    /\ c' = Set(c, t, NoCall)
    /\ ledger' = IF c[t].posted THEN Kept([ledger EXCEPT !.failed = @ \cup {c[t].obj}])
                 ELSE ledger
    /\ w' = Set(w, t, NoWait)
    /\ UNCHANGED <<token_lock, accessToken, clock, fetches, fn, sc, hd, cfg,
                   livy_global_session, sessions, remote_ids, calls, conn, s, r, posts,
                   ready, faults, shortcut_calls>>

\* ---------------------------------------------- LivySessionManager.disconnect
\* with _session_lock: if livy_global_session is not None and ...
DisconnectLock(t) ==
    /\ pc[t] = "d_lock"
    /\ LockFree
    /\ IF livy_global_session = None
       THEN /\ pc' = Set(pc, t, "idle")
            /\ out' = Set(out, t, [out[t] EXCEPT !.status = "ok"])
            /\ c' = Set(c, t, NoCall)
            /\ UNCHANGED session_lock
       ELSE /\ session_lock' = t
            /\ pc' = Set(pc, t, "d_valid")
            /\ UNCHANGED <<out, c>>
    /\ UNCHANGED <<outside, hd, cfg, livy_global_session, sessions, remote_ids, calls,
                   conn, w, s, r, posts, ready, faults, shortcut_calls>>

\* ... livy_global_session.is_valid_session(): ... else: "No session to disconnect"
DisconnectValidate_AlwaysDelete(t) ==
    /\ pc[t] = "d_valid"
    /\ HeadersReady(t)
    /\ LET o == livy_global_session
           sid == sessions[o].session_id
       IN \E resp \in (IF sid = None THEN {NoResp} ELSE SessionGetResponses) :
            c' = Set(c, t, [c[t] EXCEPT !.obj = o, !.old = sid,
                                        !.valid = IsValidSession(sid, resp) = "True"])
    /\ pc' = Set(pc, t, "d_delete")
    /\ HeadersUsed(t)
    /\ UNCHANGED <<outside, cfg, session_lock, livy_global_session, sessions,
                   remote_ids, calls, conn, w, s, r, out, posts, ready, faults,
                   shortcut_calls>>

DisconnectValidate(t) ==
    /\ pc[t] = "d_valid"
    /\ HeadersReady(t)
    /\ LET o == livy_global_session
           sid == sessions[o].session_id
       IN \E resp \in (IF sid = None THEN {NoResp} ELSE SessionGetResponses) :
            /\ ledger' = IF resp.kind = "json" /\ resp.livy \in InvalidStates
                         THEN Gone(sid) ELSE ledger
            /\ CASE IsValidSession(sid, resp) = "True" ->
                      /\ c' = Set(c, t, [c[t] EXCEPT !.obj = o, !.old = sid,
                                                     !.valid = TRUE, !.vgets = 1,
                                                     !.vresp = Seen(resp)])
                      /\ pc' = Set(pc, t, "d_delete")
                      /\ UNCHANGED <<session_lock, out>>
                 [] IsValidSession(sid, resp) = "False" ->
                      /\ c' = Set(c, t, NoCall)
                      /\ pc' = Set(pc, t, "idle")
                      /\ session_lock' = None
                      /\ out' = Set(out, t, [out[t] EXCEPT !.status = "ok"])
                 [] OTHER ->
                      /\ c' = Set(c, t, NoCall)
                      /\ pc' = Set(pc, t, "idle")
                      /\ session_lock' = None
                      /\ out' = Set(out, t, [out[t] EXCEPT !.status = "raised",
                                                           !.kind = "attribute_error"])
    /\ HeadersUsed(t)
    /\ UNCHANGED <<token_lock, accessToken, clock, fetches, fn, sc, cfg,
                   livy_global_session, sessions, remote_ids, calls, conn, w, s, r,
                   posts, ready, faults, shortcut_calls>>

\* delete_session(); is_new_session_required = True; the lock is released
DisconnectDelete(t) ==
    /\ pc[t] = "d_delete"
    /\ HeadersReady(t)
    /\ \E outc \in DeleteOutcomes :
         /\ out' = Set(out, t, [out[t] EXCEPT !.status = "ok",
                                              !.kind = IF outc = "200" THEN "deleted"
                                                       ELSE "delete_failed"])
         /\ ledger' = IF outc = "200"
                      THEN Gone(sessions[livy_global_session].session_id)
                      ELSE ledger
    /\ sessions' = [sessions EXCEPT ![livy_global_session].is_new_session_required = TRUE]
    /\ session_lock' = None
    /\ c' = Set(c, t, NoCall)
    /\ pc' = Set(pc, t, "idle")
    /\ HeadersUsed(t)
    /\ UNCHANGED <<token_lock, accessToken, clock, fetches, fn, sc, cfg,
                   livy_global_session, remote_ids, calls, conn, w, s, r, posts, ready,
                   faults, shortcut_calls>>

\* ------------------------------------------------ LivyCursor._submitLivyCode
\* execute raises: the cursor's caller sees the error
\* the number an error message of the cursor gives
ErrorLimit(kind) ==
    CASE kind = "submit_failed" -> SubmitMaxRetries
      [] kind \in {"statement_poll_lost", "statement_poll_http"} -> MaxConsecutiveErrors
      [] kind = "statement_timeout" -> cfg.statement_timeout
      [] OTHER -> 0

\* raise DbtDatabaseError(...) out of the call: the numbers and the statement id
\* the message gives, and, where the run records them, the response the call
\* ended on and the message text
RaisedOn(t, kind, res, msg) ==
    /\ pc' = Set(pc, t, "idle")
    /\ out' = Set(out, t, [out[t] EXCEPT !.status = "raised", !.kind = kind,
                                         !.limit = ErrorLimit(kind),
                                         !.stmt = r[t].stmt,
                                         !.res = IF cfg.observe THEN res ELSE NoResponse,
                                         !.msg = IF cfg.observe THEN msg ELSE <<>>])

Raised(t, kind) == RaisedOn(t, kind, NoResponse, <<>>)

\* how the branch of a failed statement ends: error_info = res.get("output", {}),
\* error_info.get("evalue", ...) raises AttributeError on an output that is null;
\* ''.join(...) raises TypeError on a traceback that is null or holds a number
StatementFailedEnd(output) ==
    CASE output.key = "null" -> "AttributeError"
      [] output.traceback.wrong # "-" -> "TypeError"
      [] OTHER -> "DbtDatabaseError"

\* str() of the TypeError of ''.join(traceback)
JoinError(traceback) ==
    IF traceback.wrong = "null" THEN <<"can only join an iterable">>
    ELSE <<"sequence item 0: expected str instance, int found">>

\* f"Statement {statement_id} failed with state '{state}': {error_msg}\n{''.join(traceback)}"
\* with error_info = res.get("output", {}), its "evalue" or the default text, and
\* its "traceback" or []; the text of the TypeError when the join raises
StatementFailedMessage(stmt, state, output) ==
    CASE StatementFailedEnd(output) = "DbtDatabaseError" ->
             <<"Statement ", ToString(stmt), " failed with state '", state, "': ">>
                 \o (IF output.evalue.some THEN Str(output.evalue)
                     ELSE <<"No error details available">>) \o <<"\n">>
                 \o Join(Get(output.traceback, <<>>))
      [] StatementFailedEnd(output) = "TypeError" -> JoinError(output.traceback)
      [] OTHER -> <<>>

\* how execute ends once _getLivyResult has returned res: res.get('output',
\* {}).get('status') of the debug line raises AttributeError on a null output;
\* res["output"]["status"], ["data"]["application/json"], values["data"],
\* values["schema"]["fields"] and res["output"]["evalue"] raise KeyError on a key
\* that is not there; subscripting a null data or schema, len() of a null
\* application/json, values["data"] on a list and "..." + a null evalue raise
\* TypeError; a null for the rows or for the fields is assigned as it is
ExecuteEnd(output) ==
    CASE output.key = "null" -> "AttributeError"
      [] output.key = "absent" \/ output.status = "absent" -> "KeyError"
      [] output.status = "ok" /\ output.json.fault = "missing" -> "KeyError"
      [] output.status = "ok" /\ output.json.fault = "list" -> "TypeError"
      [] output.status = "ok" /\ output.json.fault = "null"
            /\ output.json.at \in {"data", "application/json", "schema"} -> "TypeError"
      [] output.status = "ok" -> "return"
      [] ~output.evalue.some -> "KeyError"
      [] output.evalue.wrong # "-" -> "TypeError"
      [] OTHER -> "DbtDatabaseError"

\* str() of the KeyError: the key, quoted
MissingKey(output) ==
    CASE output.key = "absent" -> <<"'output'">>
      [] output.status = "absent" -> <<"'status'">>
      [] output.status = "ok" /\ output.json.at \in {"data", "rows"} -> <<"'data'">>
      [] output.status = "ok" /\ output.json.at = "application/json" -> <<"'application/json'">>
      [] output.status = "ok" /\ output.json.at = "schema" -> <<"'schema'">>
      [] output.status = "ok" -> <<"'fields'">>
      [] OTHER -> <<"'evalue'">>

\* str() of the TypeError
WrongType(output) ==
    CASE output.status = "ok" /\ output.json.fault = "list" ->
             <<"list indices must be integers or slices, not str">>
      [] output.status = "ok" /\ output.json.at = "application/json" ->
             <<"object of type 'NoneType' has no len()">>
      [] output.status = "ok" -> <<"'NoneType' object is not subscriptable">>
      [] OTHER -> <<"can only concatenate str (not \"NoneType\") to str">>

\* "Error while executing query: " + res["output"]["evalue"]
ExecuteFailedMessage(output) ==
    CASE ExecuteEnd(output) = "DbtDatabaseError" ->
             <<"Error while executing query: ">> \o output.evalue.val
      [] ExecuteEnd(output) = "KeyError" -> MissingKey(output)
      [] ExecuteEnd(output) = "TypeError" -> WrongType(output)
      [] OTHER -> <<>>

\* the cursor once execute has gone through the branch of status "ok": rows and
\* schema from data["application/json"], or two empty lists when that is empty,
\* and the fetch position at 0; a lookup that raises leaves what was not assigned
\* before it (the rows are assigned before the schema is looked up)
DecodeOk(cur, json) ==
    CASE json.empty ->
             [cur EXCEPT !.rows = Some(<<>>), !.schema = Some(<<>>), !.fetch_index = 0]
      [] json.fault = "-" ->
             [cur EXCEPT !.rows = Some(json.data), !.schema = Some(json.fields),
                         !.fetch_index = 0]
      [] json.fault = "null" /\ json.at = "rows" ->
             [cur EXCEPT !.rows = Absent, !.schema = Some(json.fields), !.fetch_index = 0]
      [] json.fault = "null" /\ json.at = "fields" ->
             [cur EXCEPT !.rows = Some(json.data), !.schema = Absent, !.fetch_index = 0]
      [] json.at \in {"schema", "fields"} -> [cur EXCEPT !.rows = Some(json.data)]
      [] OTHER -> cur

\* the cursor once execute has ended on the output: an output without a status
\* leaves it; any status other than "ok" clears rows and schema and leaves the
\* fetch position
Decode_KeepOnError(cur, output) ==
    CASE output.key # "object" \/ output.status = "absent" -> cur
      [] output.status = "ok" -> DecodeOk(cur, output.json)
      [] OTHER -> cur

Decode(cur, output) ==
    CASE output.key # "object" \/ output.status = "absent" -> cur
      [] output.status = "ok" -> DecodeOk(cur, output.json)
      [] OTHER -> [cur EXCEPT !.rows = Absent, !.schema = Absent]

\* LivyCursor.description: one 7-tuple per field of _schema, none when _schema is None
Description_NotNullable(cur) ==
    IF ~cur.schema.some THEN <<>>
    ELSE [i \in 1..Len(cur.schema.val) |->
            <<cur.schema.val[i].name, cur.schema.val[i].type, None, None, None, None,
              FALSE>>]

Description(cur) ==
    IF ~cur.schema.some THEN <<>>
    ELSE [i \in 1..Len(cur.schema.val) |->
            <<cur.schema.val[i].name, cur.schema.val[i].type, None, None, None, None,
              cur.schema.val[i].nullable>>]

\* LivyCursor.fetchall: _rows, a list or None
FetchAll(cur) == cur.rows

\* what LivyCursor.fetchone returns: the row at the fetch position, or None
FetchOne(cur) ==
    IF cur.rows.some /\ cur.fetch_index < Len(cur.rows.val)
    THEN Some(cur.rows.val[cur.fetch_index + 1])
    ELSE Absent

\* the except clauses of _submitLivyCode, on the outcome of POST attempt `attempt`
OnSubmitOutcome_RetryHttp(outc, attempt) ==
    CASE outc = "ok" -> "return"
      [] attempt >= SubmitMaxRetries -> "give_up"
      [] OTHER -> "rebuild"

OnSubmitOutcome(outc, attempt) ==
    CASE outc = "ok" -> "return"
      [] outc = "conn_err" /\ attempt >= SubmitMaxRetries -> "give_up"
      [] outc = "conn_err" -> "rebuild"
      [] OTHER -> "raise"

\* the except clauses of _getLivyResult that add to consecutive_errors: a GET that
\* raised requests' ConnectionError, or any other RequestException (an HTTP error
\* status, a timeout); a ValueError or KeyError that is not a RequestException
\* (parse_err) is caught by the last clause, which leaves the counter alone
CountsAsFailure_ConnOnly(outc) == outc = "conn_err"

CountsAsFailure(outc) == outc \in {"conn_err", "req_err"}

\* http_session.close() on object o: every thread that read o's current client for
\* a request it has not sent yet now holds a closed client
CloseHeld(h, o) ==
    [v \in Threads |->
        IF conn[v].livy_session = o /\ h[v].client # "none" /\ h[v].current
        THEN [h[v] EXCEPT !.client = "closed"] ELSE h[v]]

\* http_session = _build_http_session(...) on object o: what the threads read
\* before is no longer o's client
StaleHeld(h, o) ==
    [v \in Threads |->
        IF conn[v].livy_session = o THEN [h[v] EXCEPT !.current = FALSE] ELSE h[v]]

\* if self.livy_session.is_new_session_required: LivySessionManager.connect(...)
SubmitCheck(t) ==
    /\ pc[t] = "s_check"
    /\ IF sessions[conn[t].livy_session].is_new_session_required
       THEN /\ pc' = Set(pc, t, "c_lock")
            /\ c' = Set(c, t, [NoCall EXCEPT !.caller = "submit"])
            /\ UNCHANGED s
       ELSE /\ pc' = Set(pc, t, "s_load")
            /\ s' = Set(s, t, [NoSubmit EXCEPT !.attempt = 1])
            /\ UNCHANGED c
    /\ UNCHANGED <<outside, hd, cfg, session_lock, livy_global_session, sessions,
                   remote_ids, calls, conn, w, r, out, posts, ready, faults,
                   shortcut_calls>>

\* self.session_id = self.livy_session.session_id; the URL is built from it:
\* self.connect_url + "/sessions/" + self.session_id raises TypeError on an id
\* that is None
SubmitAfterConnect(t) ==
    /\ pc[t] = "s_after"
    /\ LET sid == sessions[conn[t].livy_session].session_id
       IN /\ conn' = Set(conn, t, [conn[t] EXCEPT !.cursor_sid = sid])
          /\ IF sid = None
             THEN /\ Raised(t, "type_error")
                  /\ UNCHANGED s
             ELSE /\ pc' = Set(pc, t, "s_load")
                  /\ s' = Set(s, t, [NoSubmit EXCEPT !.attempt = 1,
                                                     !.via = IF cfg.observe THEN "reconnect"
                                                             ELSE "-"])
                  /\ UNCHANGED out
    /\ UNCHANGED <<outside, hd, cfg, session_lock, livy_global_session, sessions,
                   remote_ids, calls, c, w, r, posts, ready, faults, shortcut_calls>>

\* self.livy_session.http_session is read; the arguments (get_headers among them)
\* are evaluated before the request goes out
SubmitLoad(t) ==
    /\ pc[t] = "s_load"
    /\ s' = Set(s, t, [s[t] EXCEPT !.client = sessions[conn[t].livy_session].http_session,
                                   !.current = TRUE])
    /\ pc' = Set(pc, t, "s_send")
    /\ UNCHANGED <<outside, hd, cfg, session_lock, livy_global_session, sessions,
                   remote_ids, calls, conn, c, w, r, out, posts, ready, faults,
                   shortcut_calls>>

\* .post(url, ...); raise_for_status(); the except clauses
SubmitSend(t) ==
    /\ pc[t] = "s_send"
    /\ HeadersReady(t)
    /\ \E outc \in SubmitOutcomes :
         LET act == OnSubmitOutcome(outc, s[t].attempt)
         IN /\ s' = Set(s, t, [s[t] EXCEPT !.client = "none", !.current = FALSE,
                                           !.last = IF cfg.observe THEN outc ELSE "-"])
            /\ CASE act = "return" ->
                       /\ pc' = Set(pc, t, "r_parse")
                       /\ UNCHANGED out
                  [] act = "give_up" ->
                       Raised(t, "submit_failed")
                  [] act = "rebuild" ->
                       /\ pc' = Set(pc, t, "s_close")
                       /\ UNCHANGED out
                  [] OTHER ->
                       Raised(t, "submit_http_error")
    /\ HeadersUsed(t)
    /\ UNCHANGED <<outside, cfg, session_lock, livy_global_session, sessions,
                   remote_ids, calls, conn, c, w, r, posts, ready, faults,
                   shortcut_calls>>

\* self.livy_session.http_session.close()
SubmitClose(t) ==
    /\ pc[t] = "s_close"
    /\ LET o == conn[t].livy_session
       IN /\ sessions' = [sessions EXCEPT ![o].http_session = "closed"]
          /\ s' = CloseHeld(s, o)
          /\ r' = CloseHeld(r, o)
    /\ pc' = Set(pc, t, "s_rebuild")
    /\ UNCHANGED <<outside, hd, cfg, session_lock, livy_global_session, remote_ids,
                   calls, conn, c, w, out, posts, ready, faults, shortcut_calls>>

\* self.livy_session.http_session = _build_http_session(...); time.sleep(wait)
SubmitRebuild(t) ==
    /\ pc[t] = "s_rebuild"
    /\ LET o == conn[t].livy_session
       IN /\ sessions' = [sessions EXCEPT ![o].http_session = "open"]
          /\ s' = Set(StaleHeld(s, o), t,
                      [s[t] EXCEPT !.attempt = @ + 1, !.rebuilds = @ + 1,
                                   !.slept = @ + Backoff(s[t].attempt)])
          /\ r' = StaleHeld(r, o)
    /\ pc' = Set(pc, t, "s_load")
    /\ UNCHANGED <<outside, hd, cfg, session_lock, livy_global_session, remote_ids,
                   calls, conn, c, w, out, posts, ready, faults, shortcut_calls>>

\* ------------------------------------------------- LivyCursor._getLivyResult
\* the try block holds res_obj.json() only: a ValueError is raised again as
\* DbtDatabaseError; json_res["id"], after it, raises KeyError on an object
\* without "id" and TypeError on a body that is no object
OnSubmissionOutcome(outc) ==
    CASE outc = "parse_err" -> "no_statement_id"
      [] outc = "no_id" -> "key_error"
      [] outc = "bad_body" -> "type_error"
      [] OTHER -> "none"

\* _submitLivyCode has returned and its locals are gone; json_res = res_obj.json();
\* statement_id = repr(json_res["id"]); the deadline is taken
ResultParse(t) ==
    /\ pc[t] = "r_parse"
    /\ \E outc \in SubmissionOutcomes, id \in cfg.statements.ids :
         IF outc = "id"
         THEN /\ r' = Set(r, t, [NoResult EXCEPT !.stmt = id])
              /\ pc' = Set(pc, t, "r_loop")
              /\ UNCHANGED out
         ELSE /\ Raised(t, OnSubmissionOutcome(outc))
              /\ UNCHANGED r
    /\ s' = Set(s, t, NoSubmit)
    /\ UNCHANGED <<outside, hd, cfg, session_lock, livy_global_session, sessions,
                   remote_ids, calls, conn, c, w, posts, ready, faults, shortcut_calls>>

\* the head of the while True loop; self.livy_session.http_session is read
ResultLoop(t) ==
    /\ pc[t] = "r_loop"
    /\ IF StatementDeadlinePassed(r[t].elapsed, cfg.statement_timeout)
       THEN /\ Raised(t, "statement_timeout")
            /\ r' = Set(r, t, NoResult)
       ELSE /\ r' = Set(r, t, [r[t] EXCEPT !.client =
                                 sessions[conn[t].livy_session].http_session,
                                           !.current = TRUE])
            /\ pc' = Set(pc, t, "r_send")
            /\ UNCHANGED out
    /\ UNCHANGED <<outside, hd, cfg, session_lock, livy_global_session, sessions,
                   remote_ids, calls, conn, c, w, s, posts, ready, faults,
                   shortcut_calls>>

\* the outputs a response in the given state may carry
OutputsOf(state) ==
    CASE state = "available" -> cfg.statements.result_outputs
      [] state \in {"error", "cancelled", "cancelling"} -> cfg.statements.failure_outputs
      [] OTHER -> {NoOutput}

\* .get(url, ...); raise_for_status(); json(); the except clauses and the state
\* chain; on state available _getLivyResult returns and execute decodes the output
ResultSend(t) ==
    /\ pc[t] = "r_send"
    /\ HeadersReady(t)
    /\ \E outc \in StatementGetOutcomes, d \in 0..cfg.http_delay :
       \E output \in OutputsOf(outc) :
         LET me == [r[t] EXCEPT !.elapsed = @ + d, !.client = "none", !.current = FALSE,
                                !.last = IF cfg.observe THEN outc ELSE "-"]
             failed == CountsAsFailure(outc)
             sleep == [me EXCEPT !.elapsed = @ + cfg.poll_statement_wait]
             res == Response(outc, output)
         IN CASE failed /\ me.errors + 1 >= MaxConsecutiveErrors ->
                   /\ Raised(t, IF outc = "conn_err" THEN "statement_poll_lost"
                                                     ELSE "statement_poll_http")
                   /\ r' = Set(r, t, NoResult)
                   /\ UNCHANGED conn
              [] failed /\ outc = "conn_err" ->
                   /\ r' = Set(r, t, [me EXCEPT !.errors = @ + 1])
                   /\ pc' = Set(pc, t, "r_close")
                   /\ UNCHANGED <<out, conn>>
              [] failed ->
                   /\ r' = Set(r, t, [sleep EXCEPT !.errors = @ + 1])
                   /\ pc' = Set(pc, t, "r_loop")
                   /\ UNCHANGED <<out, conn>>
              [] outc \in {"conn_err", "req_err", "parse_err"} ->
                   /\ r' = Set(r, t, sleep)
                   /\ pc' = Set(pc, t, "r_loop")
                   /\ UNCHANGED <<out, conn>>
              [] outc = "bad_body" ->
                   /\ r' = Set(r, t, NoResult)
                   /\ RaisedOn(t, "attribute_error", NoResponse, <<>>)
                   /\ UNCHANGED conn
              [] outc = "available" ->
                   /\ r' = Set(r, t, NoResult)
                   /\ conn' = Set(conn, t, Decode(conn[t], output))
                   /\ CASE ExecuteEnd(output) = "return" ->
                             /\ pc' = Set(pc, t, "idle")
                             /\ out' = Set(out, t, [out[t] EXCEPT !.status = "ok",
                                                                  !.res = IF cfg.observe THEN res
                                                                          ELSE NoResponse])
                        [] ExecuteEnd(output) = "DbtDatabaseError" ->
                             RaisedOn(t, "execute_failed", res, ExecuteFailedMessage(output))
                        [] ExecuteEnd(output) = "KeyError" ->
                             RaisedOn(t, "key_error", res, ExecuteFailedMessage(output))
                        [] ExecuteEnd(output) = "TypeError" ->
                             RaisedOn(t, "type_error", res, ExecuteFailedMessage(output))
                        [] OTHER ->
                             RaisedOn(t, "attribute_error", res, ExecuteFailedMessage(output))
              [] outc \in {"error", "cancelled", "cancelling"} ->
                   /\ r' = Set(r, t, NoResult)
                   /\ CASE StatementFailedEnd(output) = "DbtDatabaseError" ->
                             RaisedOn(t, "statement_failed", res,
                                      StatementFailedMessage(r[t].stmt, outc, output))
                        [] StatementFailedEnd(output) = "TypeError" ->
                             RaisedOn(t, "type_error", res,
                                      StatementFailedMessage(r[t].stmt, outc, output))
                        [] OTHER ->
                             RaisedOn(t, "attribute_error", res,
                                      StatementFailedMessage(r[t].stmt, outc, output))
                   /\ UNCHANGED conn
              [] OTHER ->
                   /\ r' = Set(r, t, [sleep EXCEPT !.errors = 0])
                   /\ pc' = Set(pc, t, "r_loop")
                   /\ UNCHANGED <<out, conn>>
    /\ HeadersUsed(t)
    /\ UNCHANGED <<outside, cfg, session_lock, livy_global_session, sessions,
                   remote_ids, calls, c, w, s, posts, ready, faults, shortcut_calls>>

\* self.livy_session.http_session.close()
ResultClose(t) ==
    /\ pc[t] = "r_close"
    /\ LET o == conn[t].livy_session
       IN /\ sessions' = [sessions EXCEPT ![o].http_session = "closed"]
          /\ s' = CloseHeld(s, o)
          /\ r' = CloseHeld(r, o)
    /\ pc' = Set(pc, t, "r_rebuild")
    /\ UNCHANGED <<outside, hd, cfg, session_lock, livy_global_session, remote_ids,
                   calls, conn, c, w, out, posts, ready, faults, shortcut_calls>>

\* self.livy_session.http_session = _build_http_session(...); time.sleep(wait); continue
ResultRebuild(t) ==
    /\ pc[t] = "r_rebuild"
    /\ LET o == conn[t].livy_session
       IN /\ sessions' = [sessions EXCEPT ![o].http_session = "open"]
          /\ s' = StaleHeld(s, o)
          /\ r' = Set(StaleHeld(r, o), t,
                      [r[t] EXCEPT !.elapsed = @ + Backoff(r[t].errors)])
    /\ pc' = Set(pc, t, "r_loop")
    /\ UNCHANGED <<outside, hd, cfg, session_lock, livy_global_session, remote_ids,
                   calls, conn, c, w, out, posts, ready, faults, shortcut_calls>>

\* ------------------------------------------ a token provider that raises
\* the token lock once the exception has left the with block of line 161
TokenLockAfterRaise_Held(t) == t

TokenLockAfterRaise(t) == None

\* get_cli_access_token or get_sp_access_token raises (no az login, a wrong secret,
\* no network) inside the with block of get_headers: the assignment to accessToken
\* is not reached and the with block releases the lock; the thread is still where
\* it called get_headers; get_default_access_token only builds a tuple
HeadersFetchRaises(t) ==
    /\ InHeaders(t) /\ hd[t].at = "fetch"
    /\ TokenSource(cfg.authentication) # "int_tests"
    /\ accessToken' = AfterRaise(accessToken)
    /\ fetches' = Append(fetches, [by |-> t, source |-> TokenSource(cfg.authentication),
                                   at |-> clock, token |-> NoToken])
    /\ token_lock' = TokenLockAfterRaise(t)
    /\ hd' = Set(hd, t, [hd[t] EXCEPT !.at = "raised"])
    /\ UNCHANGED <<ledger, clock, fn, sc, cfg, session_lock, livy_global_session, sessions,
                   remote_ids, pc, calls, conn, c, w, s, r, out, posts, ready, faults,
                   shortcut_calls>>

\* the exception, an exception of the azure libraries that is no requests
\* exception, ValueError or KeyError, has left get_headers, and its caller goes on
\* with it, no request having been sent: a call of get_headers on its own ends
\* with it; create_session (line 220) raises FailedToConnectError from its except
\* Exception clause; wait_for_session_start (line 279) has no clause for it, so it
\* leaves the poll and connect; is_valid_session (line 342) returns False;
\* delete_session (line 325) logs it; _submitLivyCode (line 452) and
\* _getLivyResult (line 511) have no clause for it, so it leaves execute
ProviderRaised(t) ==
    /\ InHeaders(t) /\ hd[t].at = "raised"
    /\ LET o == livy_global_session
           sid == IF o = None THEN None ELSE sessions[o].session_id
       IN CASE pc[t] = "h_call" ->
                 /\ pc' = Set(pc, t, "idle")
                 /\ out' = Set(out, t, [out[t] EXCEPT !.status = "raised"])
                 /\ UNCHANGED <<c, w, s, r, session_lock, sessions, livy_global_session,
                                faults>>
            [] pc[t] = "cs_post" ->
                 /\ c' = Set(c, t, [c[t] EXCEPT !.vresp = NoResp,
                                                !.err = Err("create_failed", None, "-", 0)])
                 /\ pc' = Set(pc, t, "c_raise")
                 /\ faults' = TRUE
                 /\ UNCHANGED <<out, w, s, r, session_lock, sessions, livy_global_session>>
            [] pc[t] = "w_loop" ->
                 /\ w' = Set(w, t, Observed([w[t] EXCEPT !.res = "raised"]))
                 /\ c' = Set(c, t, [c[t] EXCEPT !.err = Err("token_error", sid, "-", 0)])
                 /\ pc' = Set(pc, t, "c_raise")
                 /\ faults' = TRUE
                 /\ UNCHANGED <<out, s, r, session_lock, sessions, livy_global_session>>
            [] pc[t] = "c_valid" ->
                 LET marked == sessions[o].is_new_session_required
                 IN /\ c' = Set(c, t, [c[t] EXCEPT !.branch = ConnectBranch(TRUE, FALSE, marked),
                                                   !.obj = o, !.old = sid, !.valid = FALSE,
                                                   !.marked = marked, !.vgets = 0,
                                                   !.vresp = NoResp])
                    /\ pc' = Set(pc, t, "c_delete")
                    /\ faults' = TRUE
                    /\ UNCHANGED <<out, w, s, r, session_lock, sessions, livy_global_session>>
            [] pc[t] = "c_delete" ->
                 /\ c' = Set(c, t, [c[t] EXCEPT !.obj = Len(sessions) + 1, !.del_sent = FALSE,
                                                !.del_ok = FALSE, !.vresp = NoResp])
                 /\ sessions' = Append(sessions, NewLivySession)
                 /\ livy_global_session' = Len(sessions) + 1
                 /\ pc' = Set(pc, t, "cs_post")
                 /\ UNCHANGED <<out, w, s, r, session_lock, faults>>
            [] pc[t] = "d_valid" ->
                 /\ c' = Set(c, t, NoCall)
                 /\ pc' = Set(pc, t, "idle")
                 /\ session_lock' = None
                 /\ out' = Set(out, t, [out[t] EXCEPT !.status = "ok"])
                 /\ UNCHANGED <<w, s, r, sessions, livy_global_session, faults>>
            [] pc[t] = "d_delete" ->
                 /\ out' = Set(out, t, [out[t] EXCEPT !.status = "ok", !.kind = "delete_failed"])
                 /\ sessions' = [sessions EXCEPT ![o].is_new_session_required = TRUE]
                 /\ session_lock' = None
                 /\ c' = Set(c, t, NoCall)
                 /\ pc' = Set(pc, t, "idle")
                 /\ UNCHANGED <<w, s, r, livy_global_session, faults>>
            [] pc[t] = "s_send" ->
                 /\ s' = Set(s, t, [s[t] EXCEPT !.client = "none", !.current = FALSE])
                 /\ Raised(t, "token_error")
                 /\ UNCHANGED <<c, w, r, session_lock, sessions, livy_global_session, faults>>
            [] pc[t] = "r_send" ->
                 /\ r' = Set(r, t, NoResult)
                 /\ Raised(t, "token_error")
                 /\ UNCHANGED <<c, w, s, session_lock, sessions, livy_global_session, faults>>
    /\ hd' = Set(hd, t, IF pc[t] = "h_call" THEN hd[t] ELSE NoHeaders)
    /\ UNCHANGED <<ledger, token_lock, accessToken, clock, fetches, fn, sc, cfg, remote_ids,
                   calls, conn, posts, ready, shortcut_calls>>

\* ------------------------------------------------------------ specification
Next ==
    \E t \in Threads :
        \/ StartConnect(t)
        \/ StartDisconnect(t)
        \/ StartExecute(t)
        \/ ConnectLock(t)
        \/ ConnectValidate(t)
        \/ ConnectDelete(t)
        \/ CreatePost(t)
        \/ CreateParse(t)
        \/ WaitForSessionStart(t)
        \/ ConnectReturn(t)
        \/ ConnectRaise(t)
        \/ DisconnectLock(t)
        \/ DisconnectValidate(t)
        \/ DisconnectDelete(t)
        \/ SubmitCheck(t)
        \/ SubmitAfterConnect(t)
        \/ SubmitLoad(t)
        \/ SubmitSend(t)
        \/ SubmitClose(t)
        \/ SubmitRebuild(t)
        \/ ResultParse(t)
        \/ ResultLoop(t)
        \/ ResultSend(t)
        \/ ResultClose(t)
        \/ ResultRebuild(t)

\* every caller thread, once scheduled, gets to run: the code has no step that
\* waits on anything but the session lock, and the lock's holder keeps running
Fairness == \A t \in Threads : WF_vars(WaitForSessionStart(t))

Spec == Init /\ [][Next]_vars

PollSpec == PollInit /\ [][Next]_vars

RetrySpec == RetryInit /\ [][Next]_vars

ExecSpec == ExecInit /\ [][Next]_vars

\* threads call get_headers while time passes, in some time zone and with some value
\* of credentials.authentication
Authentications ==
    {Cli, <<"C", "L", "I">>, <<"C", "l", "i">>, <<"c", "l", "i", " ">>, IntTests,
     <<"I", "N", "T", "_", "T", "E", "S", "T", "S">>, AzCli, <<>>, NoAuthentication}

TokenInit ==
    /\ cfg \in {[Credentials(0, 0, 0, 0, TRUE,
                              [t \in Threads |-> IF t = 1 THEN HeaderOps ELSE 1],
                              Statements({1}, OneFailureOutput, OneResultOutput))
                     EXCEPT !.tz = tz, !.authentication = a] :
                 tz \in Zones, a \in Authentications}
    /\ Init0

TokenNext ==
    \/ Tick
    \/ \E t \in Threads :
        \/ StartHeaders(t)
        \/ HeadersLock(t)
        \/ HeadersCheck(t)
        \/ HeadersFetch(t)
        \/ HeadersRead(t)
        \/ HeadersReturn(t)

TokenSpec == TokenInit /\ [][TokenNext]_vars

\* ------------------------------- LivySessionConnectionWrapper._fix_binding
\* a bound value: a str, an int, a bool, a float, a Decimal (in tenths), a datetime,
\* None, or another object with its str() form
NoDatetime == [y |-> 0, mo |-> 0, d |-> 0, h |-> 0, mi |-> 0, s |-> 0, us |-> 0]
Value(type, text, tenths, datetime) ==
    [type |-> type, text |-> text, tenths |-> tenths, dt |-> datetime]
\* what _fix_binding returns: a float (in tenths) or a str
Float(tenths) == [kind |-> "float", tenths |-> tenths, text |-> <<>>]
Text(text) == [kind |-> "str", tenths |-> 0, text |-> text]

\* NUMBERS = DECIMALS + (int, float); a bool is an int
NUMBERS == {"Decimal", "int", "float", "bool"}

\* n in `width` digits, zero-padded (%m, %d, %H, %M, %S, %f; %Y from year 1000 on)
RECURSIVE Digits(_, _)
Digits(n, width) ==
    IF width = 0 THEN <<>>
    ELSE Digits(n \div 10, width - 1)
         \o <<<<"0", "1", "2", "3", "4", "5", "6", "7", "8", "9">>[(n % 10) + 1]>>

\* value.strftime('%Y-%m-%d %H:%M:%S.%f')[:-3]
Strftime(d) ==
    LET full == Digits(d.y, 4) \o <<"-">> \o Digits(d.mo, 2) \o <<"-">> \o Digits(d.d, 2)
                \o <<" ">> \o Digits(d.h, 2) \o <<":">> \o Digits(d.mi, 2) \o <<":">>
                \o Digits(d.s, 2) \o <<".">> \o Digits(d.us, 6)
    IN SubSeq(full, 1, Len(full) - 3)

\* str.replace(old, new) for a one-character old
RECURSIVE Replace(_, _, _)
Replace(text, old, new) ==
    IF text = <<>> THEN <<>>
    ELSE (IF Head(text) = old THEN new ELSE <<Head(text)>>) \o Replace(Tail(text), old, new)

\* str(value).replace("\\", "\\\\").replace("'", "\\'")
Escaped_QuotesFirst(text) ==
    Replace(Replace(text, "'", <<"\\", "'">>), "\\", <<"\\", "\\">>)

Escaped(text) ==
    Replace(Replace(text, "\\", <<"\\", "\\">>), "'", <<"\\", "'">>)

\* the if/elif chain of _fix_binding
FixBinding(value) ==
    IF value.type \in NUMBERS THEN Float(value.tenths)
    ELSE IF value.type = "datetime" THEN Text(<<"'">> \o Strftime(value.dt) \o <<"'">>)
    ELSE IF value.type = "None" THEN Text(<<"'", "'">>)
    ELSE Text(<<"'">> \o Escaped(value.text) \o <<"'">>)

\* the values bound: every text of up to MaxTextLen characters that matter to the
\* escaping, a name with a quote, numbers of each type, datetimes, None and a date
RECURSIVE Texts(_)
Texts(n) ==
    IF n = 0 THEN {<<>>}
    ELSE Texts(n - 1)
         \cup {Append(x, ch) : x \in Texts(n - 1), ch \in {"a", "'", "\\", ";"}}
OBrien == <<"O", "'", "B", "r", "i", "e", "n">>
Bindings ==
    {Value("str", x, 0, NoDatetime) : x \in Texts(MaxTextLen) \cup {OBrien}}
    \cup {Value("Decimal", <<>>, 35, NoDatetime), Value("int", <<>>, 30, NoDatetime),
          Value("bool", <<>>, 10, NoDatetime), Value("float", <<>>, -15, NoDatetime),
          Value("None", <<>>, 0, NoDatetime),
          Value("date", <<"2", "0", "2", "6", "-", "0", "1", "-", "0", "2">>, 0, NoDatetime),
          Value("datetime", <<>>, 0,
                [y |-> 2026, mo |-> 1, d |-> 2, h |-> 3, mi |-> 4, s |-> 5, us |-> 6789]),
          Value("datetime", <<>>, 0,
                [y |-> 1999, mo |-> 12, d |-> 31, h |-> 23, mi |-> 59, s |-> 59,
                 us |-> 999999])}

\* bindings = [self._fix_binding(binding) for binding in bindings]
BindingInit ==
    /\ cfg = Credentials(0, 0, 0, 0, TRUE, [t \in Threads |-> 0],
                         Statements({1}, OneFailureOutput, OneResultOutput))
    /\ Idle
    /\ fn \in {[op |-> "_fix_binding", at |-> "call", arg |-> v, res |-> Text(<<>>)] :
                   v \in Bindings}
    /\ sc = NoShortcutCheck

ApplyFixBinding ==
    /\ fn.op = "_fix_binding" /\ fn.at = "call"
    /\ fn' = [fn EXCEPT !.at = "returned", !.res = FixBinding(fn.arg)]
    /\ UNCHANGED <<ledger, token_lock, accessToken, clock, hd, fetches, sc, cfg, session_lock,
                   livy_global_session, sessions, remote_ids, pc, calls, conn, c, w, s,
                   r, out, posts, ready, faults, shortcut_calls>>

BindingSpec == BindingInit /\ [][ApplyFixBinding]_vars

\* --------------------------------------- FabricSparkCredentials.__post_init__
\* _UUID_PATTERN: ^[0-9a-f]{8}-[0-9a-f]{4}-[0-9a-f]{4}-[0-9a-f]{4}-[0-9a-f]{12}$,
\* re.IGNORECASE; without re.MULTILINE, $ matches at the end of the text and
\* before a newline that ends it
HexDigits ==
    {"0", "1", "2", "3", "4", "5", "6", "7", "8", "9", "a", "b", "c", "d", "e", "f",
     "A", "B", "C", "D", "E", "F"}
UuidLen == 36
UuidPatternMatch(value) ==
    LET body == IF Len(value) = UuidLen + 1 /\ value[UuidLen + 1] = "\n"
                THEN SubSeq(value, 1, UuidLen) ELSE value
    IN /\ Len(body) = UuidLen
       /\ \A i \in 1..UuidLen :
            IF i \in {9, 14, 19, 24} THEN body[i] = "-" ELSE body[i] \in HexDigits

\* a field of the profile that is not set
NoValue == <<"<None>">>

\* _validate_uuid: does it raise
ValidateUuidRaises(value) ==
    value # NoValue /\ value # <<>> /\ ~UuidPatternMatch(value)

\* __post_init__ with the other fields valid: the error it raises, or "none"
PostInit(workspaceid, lakehouseid) ==
    IF workspaceid = NoValue THEN "Must specify workspace guid in profile"
    ELSE IF lakehouseid = NoValue THEN "Must specify lakehouse guid in profile"
    ELSE IF ValidateUuidRaises(workspaceid) THEN "workspaceid must be a valid UUID"
    ELSE IF ValidateUuidRaises(lakehouseid) THEN "lakehouseid must be a valid UUID"
    ELSE "none"

\* the identifiers of the unit test, the second in capitals
WorkspaceId ==
    <<"1", "d", "e", "8", "3", "9", "0", "c", "-", "9", "a", "c", "a", "-", "4", "7",
    "9", "0", "-", "b", "e", "e", "8", "-", "7", "2", "0", "4", "9", "1", "0", "9", "c",
    "0", "f", "4">>
LakehouseId ==
    <<"8", "C", "5", "B", "C", "2", "6", "0", "-", "B", "C", "3", "A", "-", "4", "8",
    "9", "8", "-", "9", "A", "D", "A", "-", "0", "1", "E", "4", "3", "3", "D", "4", "6",
    "1", "B", "A">>

\* the identifiers tried: a UUID, the UUID with one character replaced, with one
\* character appended, without its last character, the empty text, a path and None
Identifiers(uuid) ==
    {uuid, SubSeq(uuid, 1, UuidLen - 1), <<>>, NoValue, <<".", ".", "/">>}
    \cup {[uuid EXCEPT ![i] = ch] :
             i \in 1..UuidLen, ch \in {"g", "/", ".", "-", "0", "\n", " "}}
    \cup {Append(uuid, ch) : ch \in {"g", "/", ".", "-", "0", "\n", " "}}
    \cup {Append(SubSeq(uuid, 1, UuidLen - 1), "\n")}

CredentialsInit ==
    /\ cfg = Credentials(0, 0, 0, 0, TRUE, [t \in Threads |-> 0],
                         Statements({1}, OneFailureOutput, OneResultOutput))
    /\ Idle
    /\ fn \in {[op |-> "__post_init__", at |-> "call", arg |-> <<wid, lid>>, res |-> "-"] :
                   wid \in Identifiers(WorkspaceId), lid \in {LakehouseId}}
              \cup
              {[op |-> "__post_init__", at |-> "call", arg |-> <<wid, lid>>, res |-> "-"] :
                   wid \in {WorkspaceId}, lid \in Identifiers(LakehouseId)}
    /\ sc = NoShortcutCheck

ApplyPostInit ==
    /\ fn.op = "__post_init__" /\ fn.at = "call"
    /\ LET error == PostInit(fn.arg[1], fn.arg[2])
       IN fn' = [fn EXCEPT !.at = IF error = "none" THEN "returned" ELSE "raised",
                           !.res = error]
    /\ UNCHANGED <<ledger, token_lock, accessToken, clock, hd, fetches, sc, cfg, session_lock,
                   livy_global_session, sessions, remote_ids, pc, calls, conn, c, w, s,
                   r, out, posts, ready, faults, shortcut_calls>>

CredentialsSpec == CredentialsInit /\ [][ApplyPostInit]_vars

\* ------------------------------------------- ShortcutClient.create_shortcut
\* the target of a shortcut: its workspace id, item id and path
Target(workspace_id, item_id, path) ==
    [workspaceId |-> workspace_id, itemId |-> item_id, path |-> path]
\* Shortcut(path, shortcut_name, target, source_path, source_workspace_id, source_item_id)
Shortcut(path, name, target) == [path |-> path, name |-> name, target |-> target]

\* 200: compare target workspace, item and path
TargetMatches_IgnorePath(shortcut, found) ==
    /\ found.workspaceId = shortcut.target.workspaceId
    /\ found.itemId = shortcut.target.itemId

TargetMatches(shortcut, found) ==
    /\ found.workspaceId = shortcut.target.workspaceId
    /\ found.itemId = shortcut.target.itemId
    /\ found.path = shortcut.target.path

\* what the existence GET answers: a status, and the target of the shortcut found
GetResponse(status, target) == [status |-> status, target |-> target]
NoTarget == Target("-", "-", "-")

\* check_if_exists_and_delete_shortcut, on the GET's answer: 404 is absent, 200 is
\* present when the target matches and deleted when it does not, anything else raises
OnShortcutGet(shortcut, resp) ==
    IF resp.status = 404 THEN "post"
    ELSE IF resp.status # 200 THEN "raise"
    ELSE IF TargetMatches(shortcut, resp.target) THEN "skip"
    ELSE "delete"

\* the shortcuts asked for, and the answers of the service
Shortcuts ==
    {Shortcut("path", "name", Target("source_workspace_id", "source_item_id", "source_path")),
     Shortcut("other", "name2", Target("workspace_id", "item_id", "path"))}
GetResponses ==
    {GetResponse(200, Target(ws, item, p)) :
         ws \in {"source_workspace_id", "wrong_source_workspace_id", "workspace_id"},
         item \in {"source_item_id", "wrong_source_item_id", "item_id"},
         p \in {"source_path", "wrong_source_path", "path"}}
    \cup {GetResponse(status, NoTarget) : status \in {404, 401, 500}}

ShortcutInit ==
    /\ cfg = Credentials(0, 0, 0, 0, TRUE, [t \in Threads |-> 0],
                         Statements({1}, OneFailureOutput, OneResultOutput))
    /\ Idle
    /\ fn = NoFn
    /\ sc \in {[at |-> "get", shortcut |-> x, got |-> GetResponse(0, NoTarget),
                 deletes |-> <<>>, posts |-> 0] : x \in Shortcuts}

\* requests.get(.../shortcuts/{path}/{name})
ShortcutGet ==
    /\ sc.at = "get"
    /\ \E resp \in GetResponses :
         sc' = [sc EXCEPT !.got = resp,
                          !.at = CASE OnShortcutGet(sc.shortcut, resp) = "post" -> "post"
                                   [] OnShortcutGet(sc.shortcut, resp) = "delete" -> "delete"
                                   [] OnShortcutGet(sc.shortcut, resp) = "skip" -> "returned"
                                   [] OTHER -> "raised"]
    /\ UNCHANGED <<ledger, token_lock, accessToken, clock, hd, fetches, fn, cfg, session_lock,
                   livy_global_session, sessions, remote_ids, pc, calls, conn, c, w, s,
                   r, out, posts, ready, faults, shortcut_calls>>

\* delete_shortcut(shortcut.path, shortcut.shortcut_name), and its settle wait
ShortcutDelete ==
    /\ sc.at = "delete"
    /\ sc' = [sc EXCEPT !.deletes = Append(@, <<sc.shortcut.path, sc.shortcut.name>>),
                        !.at = "post"]
    /\ UNCHANGED <<ledger, token_lock, accessToken, clock, hd, fetches, fn, cfg, session_lock,
                   livy_global_session, sessions, remote_ids, pc, calls, conn, c, w, s,
                   r, out, posts, ready, faults, shortcut_calls>>

\* requests.post(.../shortcuts)
ShortcutPost ==
    /\ sc.at = "post"
    /\ sc' = [sc EXCEPT !.posts = @ + 1, !.at = "returned"]
    /\ UNCHANGED <<ledger, token_lock, accessToken, clock, hd, fetches, fn, cfg, session_lock,
                   livy_global_session, sessions, remote_ids, pc, calls, conn, c, w, s,
                   r, out, posts, ready, faults, shortcut_calls>>

ShortcutNext == ShortcutGet \/ ShortcutDelete \/ ShortcutPost

ShortcutSpec == ShortcutInit /\ [][ShortcutNext]_vars

\* the threads connect, disconnect, execute and call get_headers, and every
\* request builds its headers from the token cache; no clock change is near; time
\* passes in one step that brings a token fetched before it close to its expiry,
\* and the identity provider may fail
LockInit ==
    /\ cfg = [Credentials(ShortStartTimeout, StatementTimeout, PollStatementWait, 0, FALSE,
                          [t \in Threads |-> IF t = 1 THEN LockOps ELSE 1],
                          Statements({1}, OneFailureOutput, OneResultOutput))
                 EXCEPT !.tokens = TRUE, !.steps = {3400}]
    /\ Init0

\* the steps of the threads
LockSteps ==
    \/ Next
    \/ \E t \in Threads :
        \/ StartHeaders(t)
        \/ HeadersLock(t)
        \/ HeadersCheck(t)
        \/ HeadersFetch(t)
        \/ HeadersFetchRaises(t)
        \/ ProviderRaised(t)
        \/ HeadersRead(t)
        \/ HeadersReturn(t)

LockNext == LockSteps \/ Tick

LockSpec == LockInit /\ [][LockNext]_vars

\* ----------------------------------- LivyCursor.fetchone, LivyCursor.fetchall
\* the cursor once fetchone has returned: the fetch position has moved by one when
\* a row was returned
AfterFetchOne_Stay(cur) == cur

AfterFetchOne(cur) ==
    IF cur.rows.some /\ cur.fetch_index < Len(cur.rows.val)
    THEN [cur EXCEPT !.fetch_index = cur.fetch_index + 1]
    ELSE cur

\* what the run keeps of a fetch: the thread, the number of top-level calls the
\* thread had made, the method and what it returned
Fetch(t, op, res) == [by |-> t, call |-> calls[t], op |-> op, res |-> res]

\* cursor.fetchone() on the cursor of the thread's connection
CursorFetchOne(t) ==
    /\ pc[t] = "idle" /\ conn[t] # NoConn /\ Len(fn.arg) < FetchOps
    /\ fn' = [fn EXCEPT !.arg = Append(@, Fetch(t, "fetchone", FetchOne(conn[t])))]
    /\ conn' = Set(conn, t, AfterFetchOne(conn[t]))
    /\ UNCHANGED <<ledger, cfg, session_lock, livy_global_session, sessions, remote_ids, pc,
                   calls, c, w, s, r, out, posts, ready, faults, shortcut_calls,
                   token_lock, accessToken, clock, hd, fetches, sc>>

\* cursor.fetchall() on the cursor of the thread's connection
CursorFetchAll(t) ==
    /\ pc[t] = "idle" /\ conn[t] # NoConn /\ Len(fn.arg) < FetchOps
    /\ fn' = [fn EXCEPT !.arg = Append(@, Fetch(t, "fetchall", FetchAll(conn[t])))]
    /\ UNCHANGED <<ledger, conn, cfg, session_lock, livy_global_session, sessions, remote_ids, pc,
                   calls, c, w, s, r, out, posts, ready, faults, shortcut_calls,
                   token_lock, accessToken, clock, hd, fetches, sc>>

\* LivyCursor.close(): self._rows = None; self._fetch_index = 0 (the schema stays)
AfterClose(cur) == [cur EXCEPT !.rows = Absent, !.fetch_index = 0]

\* cursor.close(), or one of LivyCursor.__exit__, LivyConnection.close(),
\* LivyConnection.__exit__ and LivySessionConnectionWrapper.close(), which call it
CursorClose(t) ==
    /\ pc[t] = "idle" /\ conn[t] # NoConn /\ Len(fn.arg) < FetchOps
    /\ fn' = [fn EXCEPT !.arg = Append(@, Fetch(t, "close", Absent))]
    /\ conn' = Set(conn, t, AfterClose(conn[t]))
    /\ UNCHANGED <<ledger, cfg, session_lock, livy_global_session, sessions, remote_ids, pc,
                   calls, c, w, s, r, out, posts, ready, faults, shortcut_calls,
                   token_lock, accessToken, clock, hd, fetches, sc>>

\* LivySession.__exit__, at the end of a with block on the session object of the
\* thread's connection: self.http_session.close(); no lock is taken and no new
\* client is built
SessionExit(t) ==
    /\ pc[t] = "idle" /\ conn[t].livy_session # None
    /\ LET o == conn[t].livy_session
       IN /\ sessions' = [sessions EXCEPT ![o].http_session = "closed"]
          /\ s' = CloseHeld(s, o)
          /\ r' = CloseHeld(r, o)
    /\ UNCHANGED <<outside, hd, cfg, session_lock, livy_global_session, remote_ids, pc,
                   calls, conn, c, w, out, posts, ready, faults, shortcut_calls>>

\* one thread connects, executes statements and fetches from its cursor
FetchInit ==
    /\ cfg = Credentials(ShortStartTimeout, StatementTimeout, PollStatementWait, 0, TRUE,
                         [t \in Threads |-> IF t = 1 THEN CursorOps ELSE 0],
                         Statements({1}, OneFailureOutput,
                                    {Output("object", "ok", Absent, Absent, Json(rows, <<>>)) :
                                         rows \in RowLists}
                                    \cup {Output("object", "error", Absent, Absent,
                                                 Json(<<<<1, 2>>>>, <<>>)),
                                          Output("object", "ok", Absent, Absent,
                                                 JsonWithout("schema", <<<<4, 5>>>>))}))
    /\ Init0

FetchNext ==
    \/ Next
    \/ \E t \in Threads :
        \/ CursorFetchOne(t)
        \/ CursorFetchAll(t)
        \/ CursorClose(t)
        \/ SessionExit(t)

FetchSpec == FetchInit /\ [][FetchNext]_vars

\* one thread connects, disconnects, executes and calls get_headers, every request
\* building its headers from the token cache, in some time zone and with some
\* token provider, which may fail; time passes in steps that take a run from
\* before its zone's clock change to after it
RaiseInit ==
    /\ cfg \in {[Credentials(ShortStartTimeout, StatementTimeout, PollStatementWait, 0,
                              FALSE, [t \in Threads |-> IF t = 1 THEN HeaderOps ELSE 0],
                              Statements({1}, OneFailureOutput, OneResultOutput))
                     EXCEPT !.tz = tz, !.authentication = a, !.max_elapsed = LongElapsed,
                            !.steps = {2500}, !.tokens = TRUE] :
                 tz \in Zones, a \in {Cli, IntTests, AzCli}}
    /\ Init0

RaiseNext ==
    \/ Tick
    \/ \E t \in Threads :
        \/ StartHeaders(t)
        \/ HeadersLock(t)
        \/ HeadersCheck(t)
        \/ HeadersFetch(t)
        \/ HeadersFetchRaises(t)
        \/ ProviderRaised(t)
        \/ HeadersRead(t)
        \/ HeadersReturn(t)
        \/ StartConnect(t)
        \/ ConnectLock(t)
        \/ ConnectValidate(t)
        \/ ConnectDelete(t)
        \/ CreatePost(t)
        \/ CreateParse(t)
        \/ WaitForSessionStart(t)
        \/ ConnectReturn(t)
        \/ ConnectRaise(t)
        \/ StartDisconnect(t)
        \/ DisconnectLock(t)
        \/ DisconnectValidate(t)
        \/ DisconnectDelete(t)
        \/ StartExecute(t)
        \/ SubmitCheck(t)
        \/ SubmitLoad(t)
        \/ SubmitSend(t)
        \/ SubmitClose(t)
        \/ SubmitRebuild(t)
        \/ ResultParse(t)
        \/ ResultLoop(t)
        \/ ResultSend(t)
        \/ ResultClose(t)
        \/ ResultRebuild(t)

RaiseSpec == RaiseInit /\ [][RaiseNext]_vars

\* two threads make their calls; what became of the remote sessions and of the
\* creations is kept
LedgerInit ==
    /\ cfg = [Credentials(ShortStartTimeout, StatementTimeout, PollStatementWait, 0, FALSE,
                          [t \in Threads |-> IF t = 1 THEN MaxOps ELSE 1],
                          Statements({1}, OneFailureOutput, OneResultOutput))
                 EXCEPT !.history = TRUE, !.null_ids = TRUE]
    /\ Init0

LedgerSpec == LedgerInit /\ [][Next]_vars

\* a thread inside connect or disconnect keeps running: it waits on nothing but the
\* session lock, its own sleeps and HTTP exchanges that return; a thread at the
\* lock gets it once the lock stays free, which it does when the other threads
\* have made their calls
ManagerStep(t) ==
    \/ ConnectLock(t) \/ ConnectValidate(t) \/ ConnectDelete(t) \/ CreatePost(t)
    \/ CreateParse(t) \/ WaitForSessionStart(t) \/ ConnectReturn(t) \/ ConnectRaise(t)
    \/ DisconnectLock(t) \/ DisconnectValidate(t) \/ DisconnectDelete(t)

ManagerFairness == \A t \in Threads : WF_vars(ManagerStep(t))

FairLedgerSpec == LedgerInit /\ [][Next]_vars /\ ManagerFairness

FairPollSpec == PollInit /\ [][Next]_vars /\ Fairness

\* a thread inside _getLivyResult keeps running: the loop waits on nothing but its
\* own sleeps and HTTP exchanges, which all return
ResultFairness ==
    \A t \in Threads :
        WF_vars(ResultLoop(t) \/ ResultSend(t) \/ ResultClose(t) \/ ResultRebuild(t))

FairRetrySpec == RetryInit /\ [][Next]_vars /\ ResultFairness

\* -------------------------------------------------------------- properties
\* where a thread is inside a session create (POST and readiness poll), a validity
\* check or a session delete, or between one of them and the end of its call
CreatePcs == {"cs_post", "cs_parse", "w_loop"}
ManagerPcs == CreatePcs \cup {"c_valid", "c_delete", "c_conn", "c_raise", "d_valid", "d_delete"}
PollFailures == {"timeout", "fatal", "aborted", "crashed"}
Returned(t) == out[t].op = "connect" /\ out[t].status = "ok"

\* C1: every connection connect returns carries the id of a session whose readiness
\* poll ended by observing nested state idle; connect is about to return only after
\* its own create ended with ready, and a failed creation or readiness poll ends in
\* a raise, never in a returned connection.
C1_ReturnedSessionsAreReady ==
    \A t \in Threads :
        /\ conn[t] # NoConn => conn[t].session_id # None /\ conn[t].session_id \in ready
        /\ pc[t] = "c_conn" =>
             /\ sessions[livy_global_session].session_id \in ready
             /\ c[t].branch # "reuse" =>
                  /\ w[t].res = "ready"
                  /\ sessions[livy_global_session].session_id = c[t].new
        /\ w[t].res \in PollFailures => pc[t] = "c_raise"
        /\ pc[t] = "c_raise" => c[t].err.kind # "none" /\ w[t].res # "ready"

\* one thread's connect returned a ready session after another thread's connect
\* failed and raised
C1_Witness ==
    \E t, u \in Threads :
        /\ Returned(t) /\ conn[t].session_id \in ready
        /\ out[u].op = "connect" /\ out[u].status = "raised"
        /\ out[u].kind \in {"create_failed", "no_session_id", "start_timeout", "session_dead"}

\* C2: when the threads' only calls are connects racing on an absent session, and
\* the session becomes ready and is found valid afterwards, one POST /sessions is
\* sent in all, a caller that finds the lock held cannot enter before the holder
\* has left, and all returned connections carry the same session id.
OnlyConnects == \A t \in Threads : calls[t] <= 1 /\ out[t].op \in {"-", "connect"}

C2_OneCreatePerRace ==
    (OnlyConnects /\ ~faults) =>
        /\ posts <= 1
        /\ (\E t \in Threads : Returned(t)) => posts = 1
        /\ \A t, u \in Threads :
             (Returned(t) /\ Returned(u)) => conn[t].session_id = conn[u].session_id
        /\ \A t \in Threads :
             (pc[t] = "c_lock" /\ \E u \in Threads \ {t} : pc[u] \in ManagerPcs)
                 => ~ENABLED ConnectLock(t)

\* every thread returned from its connect, one of them after finding the lock held
C2_Witness ==
    /\ OnlyConnects /\ ~faults /\ posts = 1
    /\ \A t \in Threads : Returned(t)
    /\ \E t \in Threads : out[t].waited
    /\ \A t, u \in Threads : conn[t].session_id = conn[u].session_id

\* C3: a thread inside a session create, a validity check or a session delete holds
\* the session-manager lock, so at most one thread is inside one of them.
C3_ManagerStepsUnderLock ==
    /\ \A t \in Threads : pc[t] \in ManagerPcs => session_lock = t
    /\ Cardinality({t \in Threads : pc[t] \in ManagerPcs}) <= 1

\* a thread polls the session its execute is re-creating while another thread
\* waits for the lock
C3_Witness ==
    \E t, u \in Threads :
        /\ pc[t] = "w_loop" /\ c[t].caller = "submit" /\ session_lock = t
        /\ pc[u] \in {"c_lock", "d_lock"}

\* C4: no thread issues a request on an HTTP client that another thread has closed.
C4_NoRequestOnClosedClient ==
    \A t \in Threads :
        /\ pc[t] = "s_send" => s[t].client # "closed"
        /\ pc[t] = "r_send" => r[t].client # "closed"

\* where a thread is about to send, or has built, a request to a statements endpoint
StatementPcs == {"s_load", "s_send", "s_close", "s_rebuild", "r_parse", "r_loop",
                 "r_send", "r_close", "r_rebuild"}
FatalStates == {"dead", "killed", "error"}

\* C5: a readiness poll that has so far seen k responses with top-level state
\* starting or not_started has slept k times, poll_wait each, and sent k requests;
\* when the next response is a nested idle the poll returns ready on observation
\* k+1 with no further sleep and the needs-new-session flag cleared; no statement
\* request addresses the session before that observation.
C5_StartingThenIdle ==
    \A t \in Threads :
        /\ (pc[t] = "w_loop" /\ w[t].others = 0) =>
             /\ w[t].sleeps = w[t].starting
             /\ w[t].slept = w[t].starting * cfg.poll_wait
             /\ w[t].gets = w[t].starting
             /\ w[t].res = "none"
             /\ \A u \in Threads : pc[u] \in StatementPcs => conn[u].cursor_sid # c[t].new
        /\ (pc[t] = "c_conn" /\ c[t].branch # "reuse" /\ w[t].others = 0) =>
             /\ w[t].res = "ready"
             /\ w[t].last.kind = "json" /\ w[t].last.livy = "idle"
             /\ w[t].sleeps = w[t].starting
             /\ w[t].slept = w[t].starting * cfg.poll_wait
             /\ w[t].gets = w[t].starting + 1
             /\ ~sessions[c[t].obj].is_new_session_required
             /\ \A u \in Threads : pc[u] \in StatementPcs => conn[u].cursor_sid # c[t].new

\* the poll saw starting, starting, idle: ready on the third observation
C5_Witness ==
    \E t \in Threads :
        /\ pc[t] = "c_conn" /\ w[t].res = "ready"
        /\ w[t].starting = 2 /\ w[t].others = 0 /\ w[t].sleeps = 2 /\ w[t].gets = 3

\* C6 as stated: whatever its top-level state, a response whose nested state is
\* dead, killed or error makes the poll raise at once with the remote errorMessage.
C6_NestedFatalAlwaysRaises ==
    \A t \in Threads :
        (w[t].last.kind = "json" /\ w[t].last.livy \in FatalStates /\ w[t].res # "timeout") =>
            /\ pc[t] = "c_raise" /\ w[t].res = "fatal"
            /\ w[t].last.msg = "boom" => c[t].err.msg = "boom"

\* C6 as amended: a response whose top-level state is neither starting nor
\* not_started and whose nested state is dead, killed or error makes the poll raise
\* at once, with no sleep or GET after it, an error that carries the remote
\* errorMessage.
C6_FatalUnlessStarting ==
    \A t \in Threads :
        (w[t].last.kind = "json" /\ w[t].last.livy \in FatalStates
           /\ w[t].last.state \notin {"starting", "not_started"}) =>
            /\ pc[t] = "c_raise" /\ w[t].res = "fatal"
            /\ w[t].gets = w[t].sleeps + 1
            /\ c[t].err.kind = "session_dead"
            /\ c[t].err.sid = c[t].new
            /\ w[t].last.msg = "boom" => c[t].err.msg = "boom"
            /\ w[t].last.msg = "absent" => c[t].err.msg = "No error details"

\* after one sleep the poll got a nested dead with an errorMessage, and raised
C6_Witness ==
    \E t \in Threads :
        /\ pc[t] = "c_raise" /\ w[t].res = "fatal" /\ w[t].sleeps >= 1
        /\ w[t].last.livy = "dead" /\ w[t].last.msg = "boom" /\ c[t].err.msg = "boom"

\* Every GET of the readiness poll is sent by an iteration that started with the
\* deadline not exceeded, the poll ends with a timeout only at the first iteration
\* that starts after session_start_timeout has elapsed, and the timeout error names
\* the session id and the configured timeout
C7_PollSafety ==
    \A t \in Threads :
        /\ w[t].gets > 0 => w[t].started <= cfg.session_start_timeout
        /\ w[t].res = "timeout" =>
             /\ pc[t] = "c_raise"
             /\ w[t].elapsed > cfg.session_start_timeout
             /\ c[t].err.kind = "start_timeout"
             /\ c[t].err.sid = c[t].new /\ c[t].err.sid # None
             /\ c[t].err.limit = cfg.session_start_timeout
        /\ w[t].res \in {"ready", "fatal"} => w[t].started <= cfg.session_start_timeout
        /\ (c[t].err.kind \in {"start_timeout", "session_dead"}) => pc[t] = "c_raise"

\* the poll has ended in one of three ways: ready, the error of a remote failure,
\* or the timeout error
C7_EndsThreeWays ==
    \A t \in Threads :
        /\ w[t].res \in {"none", "ready", "fatal", "timeout"}
        /\ w[t].res = "ready" => pc[t] = "c_conn"
        /\ w[t].res = "fatal" => pc[t] = "c_raise" /\ c[t].err.kind = "session_dead"
        /\ pc[t] = "c_raise" /\ w[t].gets > 0 =>
             c[t].err.kind \in {"session_dead", "start_timeout"}

\* a thread in the poll eventually leaves it
C7_PollLeaves == \A t \in Threads : (pc[t] = "w_loop") ~> (pc[t] # "w_loop")

\* C7: the readiness poll ends, whatever the responses and errors: with ready,
\* with the error of a remote failure, or, at the first iteration that starts
\* after session_start_timeout has elapsed, with a timeout error that names the
\* session id and the configured timeout; no GET is sent once the deadline has
\* been seen exceeded
C7_PollTerminates ==
    /\ []C7_PollSafety
    /\ []C7_EndsThreeWays
    /\ C7_PollLeaves

\* the poll has ended on a 2xx body that is no object, or whose livyInfo is null,
\* with the AttributeError of lines 297-298
C7_EndedOnAttributeError ==
    \E t \in Threads :
        /\ pc[t] = "c_raise" /\ w[t].res = "crashed"
        /\ w[t].last.kind = "malformed" /\ c[t].err.kind = "attribute_error"
        /\ w[t].started <= cfg.session_start_timeout

\* C8: a failed GET or an unparseable body never ends the readiness poll: the poll
\* sleeps poll_wait after it and goes on, however many came in a row, and only the
\* deadline ends it.
C8_TransientsAreRetried ==
    \A t \in Threads :
        (w[t].last.kind \in TransientKinds) =>
            /\ w[t].res \in {"none", "timeout"}
            /\ w[t].sleeps = w[t].gets
            /\ w[t].slept = w[t].sleeps * cfg.poll_wait
            /\ w[t].transients >= 1
            /\ w[t].res = "none" => pc[t] = "w_loop"
            /\ w[t].res = "timeout" => w[t].elapsed > cfg.session_start_timeout

\* three failures in a row, each slept on, and the poll is still running
C8_Witness ==
    \E t \in Threads :
        /\ pc[t] = "w_loop" /\ w[t].res = "none"
        /\ w[t].transients >= 3 /\ w[t].last.kind = "req_err"

\* what create_session raises: FailedToConnectError for a failed POST, a response
\* without an id, a session seen dead and a start timeout; and the exceptions its
\* except clauses do not name
CreateErrors ==
    {"create_failed", "no_session_id", "start_timeout", "session_dead", "type_error",
     "value_error", "attribute_error"}

\* C9: a connect that found the session invalid has sent DELETE for the old id
\* before its POST, goes on to create the replacement whether or not the DELETE
\* succeeded, never raises the DELETE's failure, and returns the replacement's id.
C9_InvalidSessionReplaced ==
    \A t \in Threads :
        (c[t].branch = "invalid" /\ c[t].old # None) =>
            /\ pc[t] \in (CreatePcs \cup {"c_conn", "c_raise"}) => c[t].del_sent
            /\ c[t].posted => c[t].del_sent
            /\ pc[t] = "c_raise" =>
                 c[t].err.kind \in CreateErrors
            /\ pc[t] = "c_conn" =>
                 /\ c[t].posted
                 /\ c[t].new # NoneText => c[t].new # c[t].old
                 /\ c[t].new \in ready
                 /\ c[t].obj = livy_global_session
                 /\ sessions[livy_global_session].session_id = c[t].new

\* the DELETE of the old session failed and the replacement is about to be returned
C9_Witness ==
    \E t \in Threads :
        /\ pc[t] = "c_conn" /\ c[t].branch = "invalid" /\ c[t].old # None
        /\ c[t].del_sent /\ ~c[t].del_ok /\ c[t].new \in ready

\* C10 as stated: after a failed statement submission the session is marked as
\* needing restart.
SubmitFailures == {"submit_failed", "submit_http_error"}

C10_FailedSubmitMarksSession ==
    \A t \in Threads :
        (out[t].op = "execute" /\ out[t].status = "raised" /\ out[t].kind \in SubmitFailures)
            => sessions[conn[t].livy_session].is_new_session_required

\* C10 as amended: a failed statement submission leaves the needs-restart mark as
\* it was; a connect that finds the session valid and marked sends a new
\* POST /sessions, polls the new session to ready and clears the mark instead of
\* reusing the old session.
C10_MarkedValid ==
    \A t \in Threads :
        (pc[t] = "c_conn" /\ c[t].valid /\ c[t].marked) =>
            /\ c[t].branch = "restart" /\ c[t].posted
            /\ c[t].new # NoneText => c[t].new # c[t].old
            /\ c[t].new \in ready
            /\ sessions[livy_global_session].session_id = c[t].new
            /\ ~sessions[livy_global_session].is_new_session_required

C10_SubmitKeepsMark ==
    \A t \in Threads :
        (pc[t] = "s_send" /\ pc'[t] # "s_send") => sessions' = sessions

C10_RestartOnlyWhenMarked ==
    /\ []C10_MarkedValid
    /\ [][C10_SubmitKeepsMark]_vars

\* a connect found the session valid and marked, and has re-created it
C10_Witness ==
    \E t \in Threads :
        /\ pc[t] = "c_conn" /\ c[t].valid /\ c[t].marked /\ c[t].branch = "restart"
        /\ c[t].new \in ready /\ c[t].old # None

\* the steps of a disconnect call
DisconnectPcs == {"d_lock", "d_valid", "d_delete"}
DeleteKinds == {"deleted", "delete_failed"}

\* C11 as stated: the second of two disconnect calls in a row sends no DELETE.
C11_SecondDisconnectSendsNoDelete ==
    \A t \in Threads :
        (out[t].op = "disconnect" /\ out[t].prev = "disconnect")
            => /\ out[t].status \in {"running", "ok"}
               /\ out[t].kind \notin DeleteKinds
               /\ pc[t] # "d_delete"

\* C11 as amended: disconnect sends DELETE and sets the needs-new-session mark only
\* when a session object exists and its validity check reports valid; otherwise it
\* sends nothing and changes no local state; it raises nothing but the
\* AttributeError that leaves its validity check, the second of two calls in a row
\* included.
C11_DeleteOnlyWhenValid ==
    \A t \in Threads :
        /\ pc[t] = "d_delete" =>
             /\ livy_global_session # None /\ c[t].valid
             /\ c[t].old # None /\ c[t].old = sessions[livy_global_session].session_id
        /\ (out[t].op = "disconnect" /\ out[t].status = "raised") =>
             out[t].kind = "attribute_error"
        /\ (out[t].op = "disconnect" /\ out[t].kind \in DeleteKinds) => out[t].status = "ok"

C11_DisconnectStep ==
    \A t \in Threads :
        (pc[t] \in DisconnectPcs /\ pc'[t] # pc[t]) =>
            /\ livy_global_session' = livy_global_session
            /\ IF pc[t] = "d_delete"
               THEN /\ out'[t].kind \in DeleteKinds
                    /\ sessions' = [sessions EXCEPT
                                      ![livy_global_session].is_new_session_required = TRUE]
               ELSE /\ sessions' = sessions
                    /\ out'[t].kind \in {"none", "attribute_error"}
                    /\ out'[t].kind = "attribute_error" =>
                         pc[t] = "d_valid" /\ out'[t].status = "raised"

C11_DisconnectIsGuarded ==
    /\ []C11_DeleteOnlyWhenValid
    /\ [][C11_DisconnectStep]_vars

\* a second disconnect in a row found nothing valid and ended without a DELETE,
\* after a first one that deleted the session
C11_Witness ==
    \E t \in Threads :
        /\ out[t].op = "disconnect" /\ out[t].prev = "disconnect"
        /\ out[t].status = "ok" /\ out[t].kind = "none"
        /\ livy_global_session # None
        /\ sessions[livy_global_session].is_new_session_required

\* a thread whose connect or disconnect call has made its validity check
ValidityChecked(t) == pc[t] \in {"c_delete", "d_delete"} \/ (pc[t] \in {"cs_post", "c_conn"} /\ ~c[t].posted /\ c[t].branch # "first")

\* C12: is_valid_session sends at most one GET and never raises; it answers false
\* when the session id is absent or the GET, its status check or its parse failed,
\* and otherwise true exactly when livyInfo.currentState is none of dead,
\* shutting_down, killed, error.  Never raising: a connect raises only once its
\* create has sent the POST, and a disconnect does not raise.
C12_ValidityCheck ==
    \A t \in Threads :
        /\ ValidityChecked(t) =>
             /\ c[t].vgets = (IF c[t].old = None THEN 0 ELSE 1)
             /\ c[t].old = None => ~c[t].valid
             /\ c[t].vresp.kind # "json" => ~c[t].valid
             /\ (c[t].old # None /\ c[t].vresp.kind = "json") =>
                  (c[t].valid <=>
                     c[t].vresp.livy \notin {"dead", "shutting_down", "killed", "error"})
        /\ pc[t] = "c_raise" => c[t].posted
        /\ out[t].op = "disconnect" => out[t].status # "raised"
        /\ pc[t] \in {"c_delete", "d_delete"} => c[t].err.kind = "none"

\* the time slept before POST attempt n of one submission: 5, 10, 20, 40 seconds
\* after failures 1 to 4
SleptBeforeAttempt == <<0, 5, 15, 35, 75>>

\* C13: a submission sends at most 5 POSTs; before POST n it has rebuilt the
\* client n-1 times, once per connection failure, and slept 5, 10, 20, 40 seconds
\* after failures 1 to 4; the 5th failure raises an error naming 5 attempts with no
\* further rebuild or wait; a success ends the submission with no further POST.
C13_SubmitRetries ==
    \A t \in Threads :
        /\ pc[t] \in {"s_load", "s_send", "s_close", "s_rebuild", "r_parse"} =>
             /\ s[t].attempt \in 1..5
             /\ s[t].rebuilds = s[t].attempt - 1
             /\ s[t].slept = SleptBeforeAttempt[s[t].attempt]
        /\ pc[t] \in {"s_close", "s_rebuild"} => s[t].attempt < 5 /\ s[t].last = "conn_err"
        /\ pc[t] = "r_parse" => s[t].last = "ok"
        /\ s[t].last = "ok" => pc[t] \notin {"s_load", "s_send", "s_close", "s_rebuild"}
        /\ (s[t].last = "conn_err" /\ s[t].attempt = 5 /\ pc[t] \notin {"s_load", "s_send"}) =>
             /\ pc[t] = "idle" /\ out[t].status = "raised"
             /\ out[t].kind = "submit_failed" /\ out[t].limit = 5
             /\ s[t].rebuilds = 4 /\ s[t].slept = 75
        /\ out[t].kind = "submit_failed" => s[t].attempt = 5 /\ s[t].last = "conn_err"

\* the fifth POST failed on the connection and the submission gave up
C13_Witness ==
    \E t \in Threads :
        /\ out[t].kind = "submit_failed" /\ out[t].limit = 5
        /\ s[t].attempt = 5 /\ s[t].rebuilds = 4 /\ s[t].slept = 75

\* C14: a POST that fails with anything but a connection failure ends the
\* submission at once with an error: no POST, rebuild or wait follows it.
C14_HttpErrorNotRetried ==
    \A t \in Threads :
        /\ s[t].last = "http_err" =>
             /\ pc[t] = "idle" /\ out[t].status = "raised"
             /\ out[t].kind = "submit_http_error"
             /\ s[t].rebuilds = s[t].attempt - 1
             /\ s[t].slept = SleptBeforeAttempt[s[t].attempt]
        /\ out[t].kind = "submit_http_error" => s[t].last = "http_err"

\* the first POST got an HTTP error: one POST, no rebuild, the error raised
C14_Witness ==
    \E t \in Threads :
        /\ out[t].kind = "submit_http_error" /\ out[t].status = "raised"
        /\ s[t].attempt = 1 /\ s[t].rebuilds = 0 /\ s[t].slept = 0

\* the wait after the n-th consecutive failure, min(5 * 2^(n-1), 60) seconds
WaitAfterFailure == <<5, 10, 20, 40, 60, 60, 60, 60, 60>>
ResultPcs == {"r_loop", "r_send", "r_close", "r_rebuild"}
Client(t) == sessions[conn[t].livy_session].http_session

\* C15: while a statement is polled, a GET that fails with a connection error adds
\* one to the consecutive-failure counter and a GET that succeeds sets the counter
\* back to 0; the connection error that brings the counter to 10 raises an error
\* that gives the number 10, with no rebuild and no wait; the one that brings it
\* to n < 10 closes the HTTP client, replaces it by an open one and waits
\* min(5 * 2^(n-1), 60) seconds before the next GET
C15_PollConnectionErrors ==
    /\ [](\A t \in Threads :
            /\ r[t].errors \in 0..(MaxConsecutiveErrors - 1)
            /\ pc[t] \in {"r_close", "r_rebuild"} =>
                 r[t].last = "conn_err" /\ r[t].errors >= 1)
    /\ [][\A t \in Threads :
            /\ pc[t] = "r_send" /\ pc'[t] = "r_close" =>
                 /\ r'[t].errors = r[t].errors + 1
                 /\ r'[t].elapsed = r[t].elapsed
                 /\ sessions' = sessions
            /\ pc[t] = "r_close" /\ pc'[t] # "r_close" =>
                 /\ pc'[t] = "r_rebuild"
                 /\ Client(t)' = "closed"
                 /\ r'[t].elapsed = r[t].elapsed /\ r'[t].errors = r[t].errors
            /\ pc[t] = "r_rebuild" /\ pc'[t] # "r_rebuild" =>
                 /\ pc'[t] = "r_loop"
                 /\ Client(t)' = "open"
                 /\ r'[t].elapsed = r[t].elapsed + WaitAfterFailure[r[t].errors]
                 /\ r'[t].errors = r[t].errors
            /\ pc[t] = "r_send" /\ pc'[t] = "r_loop" /\ r'[t].last \in StatementStates =>
                 r'[t].errors = 0
            /\ pc[t] = "r_send" /\ out'[t].kind = "statement_poll_lost" =>
                 /\ r[t].errors = MaxConsecutiveErrors - 1
                 /\ out'[t].status = "raised" /\ out'[t].limit = 10
                 /\ pc'[t] = "idle" /\ sessions' = sessions
            /\ pc[t] = "r_send" /\ r[t].errors = MaxConsecutiveErrors - 1
                 /\ pc'[t] # "r_send" /\ out'[t].kind # "statement_poll_lost" =>
                 r'[t].last # "conn_err"]_vars

\* a connection error that brought the counter to 10 has ended the poll
C15_Witness ==
    \E t \in Threads : /\ out[t].kind = "statement_poll_lost"
                       /\ out[t].status = "raised"

OtherErrors == {"req_err", "parse_err"}

\* C16, as the specification states it: a GET that fails with anything but a
\* connection error is followed by a wait of the statement poll interval and
\* another GET, and never ends the poll: the counter of consecutive failures
\* leaves it out
C16_OtherErrorsNeverEndThePoll ==
    \A t \in Threads :
        /\ out[t].kind # "statement_poll_http"
        /\ r[t].last \in OtherErrors => pc[t] \in {"r_loop", "r_send"}

\* C16, as the code has it: a GET that fails with a request error other than a
\* connection error (an HTTP error status among them) adds one to the same
\* counter of consecutive failures; the one that brings it to 10 raises an error
\* that gives the number 10, and below 10 the poll waits the statement poll
\* interval, with no rebuild, and sends another GET. A response whose parsing
\* fails with an error that is not a request error is followed by the same wait
\* and leaves the counter as it is
C16_OtherErrorsCount ==
    /\ [](\A t \in Threads : r[t].last \in OtherErrors => pc[t] \in {"r_loop", "r_send"})
    /\ [][\A t \in Threads :
            /\ pc[t] = "r_send" /\ r'[t].last \in OtherErrors =>
                 /\ r'[t].errors = r[t].errors + (IF r'[t].last = "req_err" THEN 1 ELSE 0)
                 /\ r'[t].elapsed - r[t].elapsed - cfg.poll_statement_wait
                        \in 0..cfg.http_delay
                 /\ pc'[t] = "r_loop" /\ sessions' = sessions
            /\ pc[t] = "r_send" /\ out'[t].kind = "statement_poll_http" =>
                 /\ r[t].errors = MaxConsecutiveErrors - 1
                 /\ out'[t].status = "raised" /\ out'[t].limit = 10
                 /\ pc'[t] = "idle" /\ sessions' = sessions]_vars

\* a request error that brought the counter to 10 has ended the poll
C16_Witness ==
    \E t \in Threads : /\ out[t].kind = "statement_poll_http"
                       /\ out[t].status = "raised"

\* sub occurs in msg as a run of consecutive pieces
Contains(msg, sub) ==
    \E i \in 0..(Len(msg) - Len(sub)) : SubSeq(msg, i + 1, i + Len(sub)) = sub
TerminalStates == {"available", "error", "cancelled", "cancelling"}
FailedStates == {"error", "cancelled", "cancelling"}
\* the traceback lines of the responses, one after the other
Concatenated(traceback) ==
    IF traceback = <<>> THEN <<>> ELSE <<"line 1", "\n", "line 2", "\n">>

\* C17: the statement poll ends at the first parsed response whose state is
\* terminal. On available the response is returned to execute; on error, cancelled
\* or cancelling an error is raised whose message holds the response's evalue
\* followed by a newline and the traceback lines joined, and no GET follows. On
\* waiting, running or any other state the poll sleeps the statement poll interval
\* and goes round its loop again
C17_PollStopsAtTerminalState ==
    /\ [](\A t \in Threads :
            /\ r[t].last \notin TerminalStates
            /\ out[t].kind = "statement_failed" =>
                 LET o == out[t].res.output
                     m == out[t].msg
                     ev == IF o.evalue.some THEN Str(o.evalue)
                           ELSE <<"No error details available">>
                     tb == Concatenated(Get(o.traceback, <<>>))
                 IN /\ out[t].res.state \in FailedStates /\ out[t].status = "raised"
                    /\ Contains(m, <<out[t].res.state>>)
                    /\ Contains(m, ev \o <<"\n">> \o tb)
                    /\ SubSeq(m, Len(m) - Len(tb) + 1, Len(m)) = tb)
    /\ [][\A t \in Threads :
            /\ pc[t] = "r_send" /\ r'[t].last \in {"waiting", "running", "other"} =>
                 /\ pc'[t] = "r_loop"
                 /\ r'[t].elapsed - r[t].elapsed - cfg.poll_statement_wait
                        \in 0..cfg.http_delay
                 /\ out'[t] = out[t] /\ conn'[t] = conn[t]
            /\ pc[t] = "r_send" /\ out'[t].res.state \in FailedStates =>
                 /\ pc'[t] = "idle" /\ out'[t].status = "raised"
                 /\ out'[t].kind = "statement_failed"
                 /\ conn'[t] = conn[t]
            /\ pc[t] = "r_send" /\ out'[t].res.state = "available" =>
                 /\ pc'[t] = "idle"
                 /\ out'[t].status = "ok"
                      \/ out'[t].kind \in {"execute_failed", "key_error", "attribute_error",
                                           "type_error"}]_vars

\* the errors the statement poll ends with: the failure of the statement, ten
\* consecutive failed GETs, and the timeout
PollEndings ==
    {"statement_failed", "statement_poll_lost", "statement_poll_http", "statement_timeout"}

\* Every GET of the statement poll belongs to an iteration that started with the
\* deadline not exceeded; the iteration that starts after statement_timeout has
\* elapsed raises the timeout error, which gives the statement id and the
\* configured timeout
C18_DeadlineSteps ==
    [][\A t \in Threads :
         /\ pc[t] = "r_loop" /\ pc'[t] = "r_send" =>
              r[t].elapsed <= cfg.statement_timeout
         /\ pc[t] = "r_loop" /\ pc'[t] # "r_loop" /\ pc'[t] # "r_send" =>
              /\ r[t].elapsed > cfg.statement_timeout
              /\ pc'[t] = "idle"
              /\ out'[t].status = "raised" /\ out'[t].kind = "statement_timeout"
              /\ out'[t].stmt = r[t].stmt /\ r[t].stmt \in cfg.statements.ids
              /\ out'[t].limit = cfg.statement_timeout
         /\ out'[t].kind = "statement_timeout" /\ out[t].kind # "statement_timeout" =>
              pc[t] = "r_loop"]_vars

\* the poll ends in one of four ways: with the response of an available statement,
\* which it returns to execute, or with one of the three errors
C18_EndsFourWays ==
    [][\A t \in Threads :
         pc[t] \in ResultPcs /\ pc'[t] \notin ResultPcs =>
              /\ pc'[t] = "idle"
              /\ \/ out'[t].res.state = "available"
                 \/ out'[t].status = "raised" /\ out'[t].kind \in PollEndings]_vars

\* a thread in the poll eventually leaves it
C18_PollLeaves == \A t \in Threads : (pc[t] \in ResultPcs) ~> (pc[t] \notin ResultPcs)

\* C18: the statement poll ends, whatever the responses and errors: with a
\* result, with the failure of the statement, with ten consecutive failed GETs,
\* or, at the first iteration that starts after statement_timeout has elapsed,
\* with a timeout error that gives the statement id and the configured timeout
C18_StatementPollTerminates ==
    /\ C18_DeadlineSteps
    /\ C18_EndsFourWays
    /\ C18_PollLeaves

\* the poll has ended on a 2xx body that is no object with the AttributeError of
\* line 551
C18_EndedOnAttributeError ==
    \E t \in Threads :
        /\ pc[t] = "idle" /\ out[t].op = "execute" /\ out[t].status = "raised"
        /\ out[t].kind = "attribute_error" /\ out[t].stmt \in cfg.statements.ids
        /\ out[t].res = NoResponse

Executed(t) == pc[t] = "idle" /\ out[t].op = "execute"
\* the rows and the fields of a payload that execute has gone through: none for
\* an empty application/json, None for a null
RowsOf(json) ==
    CASE json.empty -> Some(<<>>)
      [] json.fault = "null" /\ json.at = "rows" -> Absent
      [] OTHER -> Some(json.data)
FieldsOf(json) ==
    IF json.empty \/ (json.fault = "null" /\ json.at = "fields") THEN <<>> ELSE json.fields

\* C19: after execute has returned on an available statement whose output has
\* status ok, fetchall gives the rows of the output as they came, and description
\* has one tuple (name, type, None, None, None, None, nullable) for each field of
\* the output's schema, in the schema's order; when the application/json object
\* is empty, fetchall gives an empty list and description is empty
C19_ResultIsThePayload ==
    \A t \in Threads :
        Executed(t) /\ out[t].status = "ok" =>
            LET o == out[t].res.output
                d == Description(conn[t])
            IN /\ out[t].res.state = "available" /\ o.status = "ok"
               /\ o.json.empty =>
                    FetchAll(conn[t]) = Some(<<>>) /\ d = <<>>
               /\ ~o.json.empty =>
                    /\ FetchAll(conn[t]) = RowsOf(o.json)
                    /\ Len(d) = Len(FieldsOf(o.json))
                    /\ \A i \in 1..Len(d) :
                         d[i] = <<o.json.fields[i].name, o.json.fields[i].type,
                                  None, None, None, None, o.json.fields[i].nullable>>

\* execute has returned three rows, two of them equal, and a schema of two fields
C19_Witness ==
    \E t \in Threads :
        /\ Executed(t) /\ out[t].status = "ok"
        /\ conn[t].rows.some /\ Len(conn[t].rows.val) = 3
        /\ Len(Description(conn[t])) = 2

\* an output that has a status, which is not ok
HasFailedStatus(output) == output.key = "object" /\ output.status \notin {"ok", "absent"}

\* C20: when the statement is available and the status of its output is not ok,
\* execute raises an error whose message holds the output's evalue (the KeyError
\* of the lookup when the output has none, the TypeError of the concatenation
\* when it is null), and the cursor has no result
\* afterwards: fetchall and fetchone give None and description is empty
C20_FailedStatusClearsResult ==
    \A t \in Threads :
        /\ Executed(t) /\ out[t].res.state = "available" /\ HasFailedStatus(out[t].res.output) =>
             /\ out[t].status = "raised"
             /\ out[t].kind = CASE ~out[t].res.output.evalue.some -> "key_error"
                                [] out[t].res.output.evalue.wrong # "-" -> "type_error"
                                [] OTHER -> "execute_failed"
             /\ out[t].kind = "execute_failed" =>
                  Contains(out[t].msg, out[t].res.output.evalue.val)
             /\ FetchAll(conn[t]) = Absent
             /\ FetchOne(conn[t]) = Absent
             /\ Description(conn[t]) = <<>>
        /\ out[t].kind = "execute_failed" =>
             out[t].res.state = "available" /\ HasFailedStatus(out[t].res.output)

\* execute has raised on an output whose status is not ok, on a cursor whose
\* earlier execute had returned
C20_Witness ==
    \E t \in Threads :
        /\ Executed(t) /\ out[t].kind = "execute_failed" /\ out[t].prev = "execute"
        /\ ~out[t].res.output.json.empty

\* C21: each execute replaces the cursor's result wholesale.  After an execute has
\* returned, fetchall, fetchone and description give the rows and the schema of
\* that call's output, from the first row on; after an execute has raised they
\* give nothing, and never the rows or the schema an earlier execute left on the
\* cursor
C21_ExecuteReplacesResult ==
    \A t \in Threads :
        /\ Executed(t) /\ out[t].status = "ok" =>
             /\ conn[t].fetch_index = 0
             /\ FetchAll(conn[t]) = RowsOf(out[t].res.output.json)
        /\ Executed(t) /\ out[t].status = "raised" =>
             /\ FetchAll(conn[t]) = Absent
             /\ FetchOne(conn[t]) = Absent
             /\ Description(conn[t]) = <<>>

\* C26: with create_shortcuts configured, the connect that completes the first
\* successful session creation of the process calls shortcut provisioning, once,
\* whatever failed connects came before it: provisioning is never called twice,
\* and once a connect has returned a connection it has been called
C26_ShortcutsOnFirstSuccess ==
    cfg.create_shortcuts =>
        /\ shortcut_calls <= 1
        /\ \A t \in Threads : Returned(t) => shortcut_calls = 1

\* C30: when execute has reconnected because its session was marked as needing
\* replacement, the statement POST that follows uses the session object that is
\* the manager's global session and is addressed to that object's session id
C30_PostGoesToCurrentSession ==
    \A t \in Threads :
        pc[t] = "s_send" /\ s[t].via = "reconnect" =>
            /\ conn[t].livy_session = livy_global_session
            /\ conn[t].cursor_sid = sessions[livy_global_session].session_id
\* ------------------------------------------------------------ the token cache
\* the cached token the call found had five minutes or more to live
Fresh(t) == hd[t].had # NoToken /\ hd[t].had.expires_on - hd[t].time >= 300

\* C22: get_headers calls the identity provider exactly when the cached token is
\* absent or has less than five minutes to live; a call that fetched returns the
\* token it fetched
C22_FetchExactlyWhenNearExpiry ==
    \A t \in Threads :
        /\ hd[t].at = "fetch" => ~Fresh(t)
        /\ hd[t].at \in {"read", "done"} => (hd[t].fetched <=> ~Fresh(t))
        /\ hd[t].at = "done" /\ hd[t].fetched =>
             \E i \in DOMAIN fetches :
                 /\ fetches[i].by = t /\ fetches[i].at >= hd[t].time
                 /\ fetches[i].token.token = hd[t].token

\* C23: a token that is not itself near expiry is fetched once, however many
\* threads ask for it; check, fetch and replacement are made by the holder of the
\* token lock, and a header carries the token and the expiry of one fetch
C23_OneFetchPerToken ==
    /\ \A i, j \in DOMAIN fetches :
         i < j /\ fetches[i].token.expires_on - fetches[i].at >= 300 =>
             fetches[j].at > fetches[i].token.expires_on - 300
    /\ \A t \in Threads : hd[t].at \in {"check", "fetch", "read"} => token_lock = t
    /\ \A t \in Threads :
         hd[t].at = "done" =>
             \E i \in DOMAIN fetches :
                 fetches[i].token = AccessToken(hd[t].token, hd[t].expires_on)

\* the text is `word` in some mix of capitals and small letters
SameLetter(a, b) == a = b \/ <<a, b>> \in {<<"C", "c">>, <<"L", "l">>, <<"I", "i">>,
    <<"N", "n">>, <<"T", "t">>, <<"E", "e">>, <<"S", "s">>}
Spells(text, word) ==
    /\ text # NoAuthentication
    /\ Len(text) = Len(word)
    /\ \A i \in DOMAIN word : SameLetter(text[i], word[i])

\* C25: every fetch asks one provider: the CLI provider when authentication spells
\* cli in any case, the pre-supplied token with its fixed expiry when it spells
\* int_tests, and the service principal flow for every other value
C25_SourceByAuthentication ==
    \A i \in DOMAIN fetches :
        LET f == fetches[i]
        IN /\ f.source = "cli" <=> Spells(cfg.authentication, Cli)
           /\ f.source = "int_tests" <=> Spells(cfg.authentication, IntTests)
           /\ f.source = "sp" <=> ~Spells(cfg.authentication, Cli)
                                    /\ ~Spells(cfg.authentication, IntTests)
           /\ f.source = "int_tests" => f.token = AccessToken(cfg.accessToken, DefaultExpiresOn)
           /\ f.source # "int_tests" => f.token.token = i

\* fetches were made from a capitalised cli, from a capitalised int_tests and from
\* an empty value
C25_Witness ==
    /\ fetches # <<>>
    /\ cfg.authentication = <<"C", "L", "I">>
    /\ fetches[1].source = "cli"
\* ---------------------------------------------------------------- bindings
\* the backslashes that stand right before position i of the text
RECURSIVE BackslashRun(_, _)
BackslashRun(text, i) ==
    IF i > 1 /\ text[i - 1] = "\\" THEN 1 + BackslashRun(text, i - 1) ELSE 0

\* the text with one added backslash before each backslash and each single quote
RECURSIVE WithAddedBackslashes(_)
WithAddedBackslashes(text) ==
    IF text = <<>> THEN <<>>
    ELSE (IF Head(text) \in {"'", "\\"} THEN <<"\\">> ELSE <<>>)
         \o <<Head(text)>> \o WithAddedBackslashes(Tail(text))

\* C27: a value that is no number, datetime or None comes back as its string form
\* in single quotes, each of its backslashes and single quotes after an added
\* backslash, so that no single quote inside is unescaped; None gives '' and the
\* decimal 3.5 renders as 3.5
C27_BindingEscaped ==
    fn.op = "_fix_binding" /\ fn.at = "returned" =>
        LET v == fn.arg
            res == fn.res
            n == Len(res.text)
        IN /\ v.type \notin NUMBERS \cup {"datetime", "None"} =>
                /\ res.kind = "str" /\ n >= 2
                /\ res.text[1] = "'" /\ res.text[n] = "'"
                /\ SubSeq(res.text, 2, n - 1) = WithAddedBackslashes(v.text)
                /\ \A i \in 2..(n - 1) :
                     res.text[i] = "'" => BackslashRun(res.text, i) % 2 = 1
                /\ BackslashRun(res.text, n) % 2 = 0
           /\ v.type = "str" /\ v.text = OBrien =>
                res.text = <<"'", "O", "\\", "'", "B", "r", "i", "e", "n", "'">>
           /\ v.type = "None" => res = Text(<<"'", "'">>)
           /\ v.type = "Decimal" /\ v.tenths = 35 => res = Float(35)

\* a text with a backslash right before a single quote has been escaped
C27_Witness ==
    /\ fn.op = "_fix_binding" /\ fn.at = "returned"
    /\ fn.arg.type = "str" /\ fn.arg.text = <<"a", "\\", "'">>
    /\ fn.res.text = <<"'", "a", "\\", "\\", "\\", "'", "'">>
\* -------------------------------------------------------------- identifiers
\* 8-4-4-4-12 hexadecimal digits, and nothing else
WellFormedUuid(value) ==
    /\ value # NoValue
    /\ Len(value) = 36
    /\ \A i \in 1..36 :
         IF i \in {9, 14, 19, 24} THEN value[i] = "-" ELSE value[i] \in HexDigits

\* C28: the credentials are constructed exactly when workspaceid and lakehouseid
\* are both well-formed UUIDs; with any other value construction raises
C28_OnlyUuidsAccepted ==
    fn.op = "__post_init__" /\ fn.at # "call" =>
        (fn.at = "returned" <=> WellFormedUuid(fn.arg[1]) /\ WellFormedUuid(fn.arg[2]))
\* ---------------------------------------------------------------- shortcuts
\* the existence GET found a shortcut whose workspace id, item id and path are
\* those asked for
SameTarget ==
    /\ sc.got.status = 200
    /\ sc.got.target.workspaceId = sc.shortcut.target.workspaceId
    /\ sc.got.target.itemId = sc.shortcut.target.itemId
    /\ sc.got.target.path = sc.shortcut.target.path

\* C29: when create_shortcut ends, it has sent the creation POST exactly when the
\* GET answered 404 or found a shortcut that differs in workspace id, item id or
\* path; a matching shortcut is neither deleted nor created; a differing one is
\* deleted once, by its path and name; any other answer raises with nothing sent
C29_PostWhenAbsent ==
    sc.at \in {"returned", "raised"} =>
        /\ sc.posts = (IF sc.got.status = 404 \/ (sc.got.status = 200 /\ ~SameTarget)
                       THEN 1 ELSE 0)
        /\ sc.got.status = 404 => sc.deletes = <<>> /\ sc.at = "returned"
        /\ SameTarget => sc.deletes = <<>> /\ sc.at = "returned"
        /\ sc.got.status = 200 /\ ~SameTarget =>
             sc.deletes = <<<<sc.shortcut.path, sc.shortcut.name>>>> /\ sc.at = "returned"
        /\ sc.got.status \notin {200, 404} => sc.at = "raised" /\ sc.deletes = <<>>

\* a shortcut that differed only in its path was deleted and created again
C29_Witness ==
    /\ sc.at = "returned"
    /\ sc.got = GetResponse(200, Target("source_workspace_id", "source_item_id",
                                        "wrong_source_path"))
    /\ sc.shortcut.path = "path"
    /\ Len(sc.deletes) = 1 /\ sc.posts = 1
\* ------------------------------------------------------------ the two locks
\* a thread stands before a lock that another call holds
WaitsForSessionLock(t) == pc[t] \in {"c_lock", "d_lock"} /\ session_lock # None
WaitsForTokenLock(t) == InHeaders(t) /\ hd[t].at = "none" /\ token_lock # None
\* a thread is inside a call
InCall(t) == pc[t] # "idle"

\* C24: the two locks never deadlock, whether the token providers answer or
\* raise: the holder of the token lock is not at an acquisition of the session
\* lock, no thread is at an acquisition of a lock it holds, a thread outside every
\* call holds no lock, the holder of a lock some thread waits for is not itself
\* waiting in a cycle, and while a call is in progress some thread in a call can
\* take a step
C24_NoDeadlock ==
    /\ \A t \in Threads : pc[t] = "idle" => session_lock # t /\ token_lock # t
    /\ \A t \in Threads : token_lock = t => pc[t] \notin {"c_lock", "d_lock"}
    /\ \A t \in Threads : session_lock = t => pc[t] \notin {"c_lock", "d_lock"}
    /\ \A t \in Threads : token_lock = t => hd[t].at \in {"check", "fetch", "read"}
    /\ \A t \in Threads :
         WaitsForTokenLock(t) =>
             /\ token_lock # t
             /\ ~WaitsForTokenLock(token_lock) /\ ~WaitsForSessionLock(token_lock)
    /\ \A t \in Threads :
         WaitsForSessionLock(t) =>
             /\ session_lock # t
             /\ ~WaitsForSessionLock(session_lock)
             /\ WaitsForTokenLock(session_lock) => ~WaitsForSessionLock(token_lock)
    /\ (\E t \in Threads : InCall(t)) => ENABLED (LockSteps /\ calls' = calls)

\* a thread that holds the session lock waits for the token lock, which a thread
\* on its own get_headers call or on a cursor's request holds; the waiting thread
\* is in a connect whose validity check sent no GET although the session had an
\* id, the token provider having raised under both locks
C24_Witness ==
    \E t, u \in Threads :
        /\ session_lock = t /\ WaitsForTokenLock(t)
        /\ token_lock = u /\ u # t
        /\ pc[t] = "c_delete" /\ c[t].old # None /\ c[t].vgets = 0
        /\ \E k \in 1..Len(fetches) : fetches[k].by = t /\ fetches[k].token = NoToken

\* ------------------------------------------------------------------------ C34
\* the fetches thread t has made since its last top-level call began
FetchesSince(t) == SelectSeq(fn.arg, LAMBDA f : f.by = t /\ f.call = calls[t])
OnlyFetchOne(fs) == SelectSeq(fs, LAMBDA f : f.op = "fetchone")
\* the fetches made before the cursor was closed
RECURSIVE UntilClose(_)
UntilClose(fs) ==
    IF fs = <<>> \/ Head(fs).op = "close" THEN <<>>
    ELSE <<Head(fs)>> \o UntilClose(Tail(fs))
\* the rows of the payload the thread's last execute ended on
PayloadRows(t) ==
    IF out[t].res.output.json.empty THEN <<>> ELSE out[t].res.output.json.data

\* C34: after an execute that returned on a payload of n rows, and until the
\* cursor is closed, the k-th fetchone since then has returned row k of the
\* payload for k <= n and None for k > n, whatever fetchall calls came in between,
\* and every fetchall since then has returned all n rows
C34_FetchOneWalksTheRows ==
    \A t \in Threads :
        Executed(t) /\ out[t].status = "ok" =>
            LET rows == PayloadRows(t)
                all == UntilClose(FetchesSince(t))
                ones == OnlyFetchOne(all)
            IN /\ \A k \in 1..Len(ones) :
                    ones[k].res = IF k <= Len(rows) THEN Some(rows[k]) ELSE Absent
               /\ \A k \in 1..Len(all) :
                    all[k].op = "fetchall" => all[k].res = Some(rows)

\* two rows were returned; fetchone has been called three times since, with a
\* fetchall after the first call
C34_Witness ==
    \E t \in Threads :
        /\ Executed(t) /\ out[t].status = "ok"
        /\ Len(PayloadRows(t)) = 2
        /\ Len(FetchesSince(t)) = 4
        /\ Len(OnlyFetchOne(FetchesSince(t))) = 3
        /\ FetchesSince(t)[2].op = "fetchall"

\* ------------------------------------------------------------------------ C33
\* the last fetch attempted raised
LastFetchRaised == fetches # <<>> /\ fetches[Len(fetches)].token = NoToken

\* the step is a provider raising for thread t
RaisesFor(t) ==
    /\ Len(fetches') = Len(fetches) + 1
    /\ fetches'[Len(fetches')].by = t /\ fetches'[Len(fetches')].token = NoToken

\* the exception has reached the caller of get_headers and no request was sent: a
\* call of get_headers on its own and execute end with it, create_session and the
\* readiness poll end connect with it, is_valid_session answers False without a
\* GET and delete_session returns without a DELETE
ReachesCaller(t) ==
    /\ posts' = posts /\ ledger' = ledger
    /\ CASE pc[t] = "h_call" -> pc'[t] = "idle" /\ out'[t].status = "raised"
         [] pc[t] \in {"s_send", "r_send"} ->
              pc'[t] = "idle" /\ out'[t].status = "raised" /\ out'[t].kind = "token_error"
         [] pc[t] = "cs_post" ->
              pc'[t] = "c_raise" /\ c'[t].err.kind = "create_failed" /\ ~c'[t].posted
         [] pc[t] = "w_loop" -> pc'[t] = "c_raise" /\ c'[t].err.kind = "token_error"
         [] pc[t] = "c_valid" -> pc'[t] = "c_delete" /\ ~c'[t].valid /\ c'[t].vgets = 0
         [] pc[t] = "c_delete" -> pc'[t] = "cs_post" /\ ~c'[t].del_sent
         [] pc[t] = "d_valid" -> pc'[t] = "idle" /\ out'[t].status = "ok"
         [] pc[t] = "d_delete" -> pc'[t] = "idle" /\ out'[t].kind = "delete_failed"
         [] OTHER -> FALSE

\* the step is thread t going on from a get_headers call that raised
GoesOnAfterRaise(t) == hd[t].at = "raised" /\ pc[t] # "idle" /\ pc'[t] # pc[t]

\* a step in which the provider raises, at any of the places get_headers is called
\* from, leaves the exception with the caller, the cached token what the call
\* found (none, or the old one) and the token lock free; and the caller's next step
\* is what it does with the exception, with no request sent
C33_RaiseStep ==
    [][\A t \in Threads :
         /\ RaisesFor(t) =>
              /\ hd[t].at = "fetch" /\ token_lock = t
              /\ hd'[t].at = "raised" /\ pc'[t] = pc[t]
              /\ accessToken' = hd[t].had /\ accessToken' = accessToken
              /\ token_lock' = None
         /\ GoesOnAfterRaise(t) => ReachesCaller(t)
         /\ hd[t].at = "raised" /\ pc[t] # "idle" => hd'[t].at \in {"raised", "none"}]_vars

\* C33: when the provider raises inside get_headers, the exception reaches the
\* caller, the cached token is left as the call found it and the token lock is
\* released; and the get_headers call that comes next attempts the fetch again
C33_RaiseLeavesCacheAndLock ==
    [][\A t \in Threads :
         /\ RaisesFor(t) =>
              /\ hd'[t].at = "raised" /\ pc'[t] = pc[t]
              /\ accessToken' = hd[t].had /\ accessToken' = accessToken
              /\ token_lock' = None
         /\ GoesOnAfterRaise(t) => ReachesCaller(t)
         /\ LastFetchRaised /\ hd[t].at = "check" /\ hd'[t].at # "check" =>
              hd'[t].at = "fetch"]_vars

\* a provider has raised inside a request of execute, with a token in the cache
C33_RaisedInRequest ==
    \E t \in Threads :
        /\ out[t].op = "execute" /\ out[t].kind = "token_error"
        /\ LastFetchRaised /\ accessToken # NoToken /\ token_lock = None

\* a provider has raised in a call of get_headers on its own, with no token cached
C33_RaisedOnEmpty ==
    \E t \in Threads :
        /\ pc[t] = "idle" /\ out[t].op = "get_headers" /\ out[t].status = "raised"
        /\ hd[t].at = "raised" /\ hd[t].had = NoToken /\ accessToken = NoToken

\* ------------------------------------------------------------------------ C32
\* a step that ends connect with an exception leaves the session lock free, and a
\* connect that judges a session object whose last creation raised goes on to
\* create, whatever the validity check answered
C32_RaiseStep ==
    \A t \in Threads :
        /\ pc[t] = "c_raise" /\ pc'[t] # "c_raise" =>
             /\ session_lock' = None
             /\ pc'[t] = "idle" /\ out'[t].status = "raised"
             /\ out'[t].kind \in CreateErrors
        /\ pc[t] = "d_valid" /\ pc'[t] = "idle" => session_lock' = None
        /\ pc[t] = "c_valid" /\ pc'[t] \notin {"c_valid", "c_raise"}
                /\ livy_global_session \in ledger.failed =>
             /\ c'[t].branch \in {"invalid", "restart"}
             /\ pc'[t] \in {"c_delete", "cs_post"}
        /\ pc[t] = "c_valid" /\ pc'[t] = "c_raise" =>
             c'[t].err.kind = "attribute_error" /\ ~c'[t].posted
        /\ pc[t] # "c_conn" /\ pc'[t] = "c_conn" /\ c'[t].branch = "reuse" =>
             livy_global_session \notin ledger.failed

\* C32: when connect ends by raising (the POST failed, the response had no id, the
\* session was seen dead, the start timed out, or an exception no except clause
\* names left the create or the validity check), or disconnect by the exception
\* of its validity check, the session lock is free afterwards, so a thread
\* waiting for the lock in connect or disconnect gets past it; and a later connect
\* whose validity check answers creates again instead of returning the session
\* whose creation failed
C32_RaiseFreesLock ==
    /\ [][C32_RaiseStep]_vars
    /\ \A t \in Threads :
         (pc[t] \in {"c_lock", "d_lock"}) ~> (pc[t] \notin {"c_lock", "d_lock"})

\* a thread's connect raised on a start timeout while another thread waited for the
\* lock; the other thread found the session valid and is about to create it again
C32_Witness ==
    \E t, u \in Threads :
        /\ t # u
        /\ out[u].op = "connect" /\ out[u].status = "raised"
        /\ out[u].kind = "start_timeout"
        /\ out[t].op = "connect" /\ out[t].waited
        /\ pc[t] = "cs_post" /\ c[t].branch = "restart" /\ c[t].valid
        /\ c[t].obj \in ledger.failed

\* ------------------------------------------------------------------------ C31
\* the session ids the service gave out that were neither deleted with a 200 nor
\* seen in a dead state
Live == {i \in 1..remote_ids : i \notin ledger.gone}

\* C31: the process never has two remote sessions it created that are both neither
\* deleted nor dead: when a POST /sessions has been answered, every session id
\* returned earlier has had a successful DELETE or has been seen dead
C31_OneLiveSession ==
    /\ Cardinality(Live) <= 1
    /\ \A t \in Threads : pc[t] = "cs_parse" => Live = {}

====
